---- MODULE Spec2Model ----
(***************************************************************************)
(* Model of the AICore cog of Discord-LLM-Selfbot (src/cogs/ai_core.py):   *)
(* the SQLite memory store and its startup migration, the reactive         *)
(* on_message pipeline with its per-channel guard, and the parsing of the  *)
(* completion text into a reply and memory / relationship directives.      *)
(*                                                                         *)
(* Text is modelled as a sequence of tokens.  A token is an atomic piece   *)
(* of text: a letter, a blank, one of the two directive markers, the       *)
(* placeholder sentence, a line break or a bullet prefix.  str.strip,      *)
(* str.split and the "in" test are computed on these sequences the way     *)
(* Python computes them on characters.                                     *)
(***************************************************************************)
EXTENDS Integers, Sequences, FiniteSets, TLC

\* ------------------------------------------------------------------ bounds
MaxLen == 5          \* longest completion text, in tokens
MaxUsers == 2        \* user ids 1..MaxUsers
MaxMsgs == 2         \* message events delivered in one run
MaxStartups == 2     \* process starts in one run
MaxBoredom == 1      \* largest boredom_level a turn starts from

\* ------------------------------------------------------------------ text
MEMORIZE == "[MEMORIZE]"
RELATIONSHIP == "[RELATIONSHIP]"
Placeholder == "No memories yet."
Neutral == "neutral"
Whitespace == {" ", "\n"}
Alphabet == {"a", "b", " ", MEMORIZE, RELATIONSHIP}

\* every text of at most MaxLen tokens
Texts == UNION {[1..n -> Alphabet] : n \in 0..MaxLen}

SetMin(S) == CHOOSE x \in S : \A y \in S : x <= y
SetMax(S) == CHOOSE x \in S : \A y \in S : x >= y

\* needle in text, for a needle that is one token
Contains(s, tok) == \E i \in 1..Len(s) : s[i] = tok

\* str.strip(): leading and trailing whitespace removed
\* (variant: only the leading whitespace removed, as str.lstrip would)
StripLeftOnly(s) ==
    LET keep == {i \in 1..Len(s) : s[i] \notin Whitespace}
    IN IF keep = {} THEN <<>> ELSE SubSeq(s, SetMin(keep), Len(s))
Strip(s) ==
    LET keep == {i \in 1..Len(s) : s[i] \notin Whitespace}
    IN IF keep = {} THEN <<>> ELSE SubSeq(s, SetMin(keep), SetMax(keep))

\* str.split(sep): the pieces between the occurrences of sep, at least one piece
RECURSIVE Split(_, _)
Split(s, sep) ==
    LET at == {i \in 1..Len(s) : s[i] = sep}
    IN IF at = {} THEN <<s>>
       ELSE <<SubSeq(s, 1, SetMin(at) - 1)>> \o Split(SubSeq(s, SetMin(at) + 1, Len(s)), sep)


\* ------------------------------------------------------- response parsing
\* get_contextual_response, lines 298-313: the reply text and the two
\* directive payloads cut out of the completion text.  raised is the
\* IndexError of parts[1] when the text left for the second split holds no
\* relationship marker.
\* (variant: the payload keeps the text behind a later memorize marker)
ParseMemorize_KeepLater(full_response) ==
    IF Contains(full_response, MEMORIZE)
    THEN LET at == SetMin({i \in 1..Len(full_response) : full_response[i] = MEMORIZE})
             rest == SubSeq(full_response, at + 1, Len(full_response))
         IN [found |-> TRUE,
             reply_text |-> Strip(SubSeq(full_response, 1, at - 1)),
             memory_summary |-> Strip(Split(rest, RELATIONSHIP)[1])]
    ELSE [found |-> FALSE, reply_text |-> full_response, memory_summary |-> <<>>]
ParseMemorize(full_response) ==
    IF Contains(full_response, MEMORIZE)
    THEN LET parts == Split(full_response, MEMORIZE)
         IN [found |-> TRUE,
             reply_text |-> Strip(parts[1]),
             memory_summary |-> Strip(Split(parts[2], RELATIONSHIP)[1])]
    ELSE [found |-> FALSE, reply_text |-> full_response, memory_summary |-> <<>>]

ParseRelationship(full_response, reply_text) ==
    IF Contains(full_response, RELATIONSHIP)
    THEN LET parts == Split(reply_text, RELATIONSHIP)
         IN IF Len(parts) < 2
            THEN [found |-> TRUE, raised |-> TRUE,
                  reply_text |-> Strip(parts[1]), new_relationship |-> <<>>]
            ELSE [found |-> TRUE, raised |-> FALSE,
                  reply_text |-> Strip(parts[1]),
                  new_relationship |-> Strip(Split(parts[2], MEMORIZE)[1])]
    ELSE [found |-> FALSE, raised |-> FALSE,
          reply_text |-> reply_text, new_relationship |-> <<>>]

ParseDirectives(text) ==
    LET full_response == Strip(text)
        mem == ParseMemorize(full_response)
        rel == ParseRelationship(full_response, mem.reply_text)
    IN [reply_text |-> rel.reply_text,
        memory_summary |-> mem.memory_summary,
        new_relationship |-> rel.new_relationship,
        raised |-> rel.raised]

\* lines 305-306, 312-313 and 315-319: what the parsed text makes the turn
\* do, in the order the code does it
MemoryWrite(p) ==
    IF p.memory_summary # <<>>
    THEN <<[op |-> "append_memory", arg |-> p.memory_summary]>> ELSE <<>>
RelationshipWrite(p) ==
    IF ~p.raised /\ p.new_relationship # <<>>
    THEN <<[op |-> "set_relationship", arg |-> p.new_relationship]>> ELSE <<>>
ReplySend(p) ==
    IF ~p.raised /\ p.reply_text # <<>>
    THEN <<[op |-> "reply", arg |-> p.reply_text]>> ELSE <<>>

\* the writes and the send of a turn in which no store, typing or send call fails
TurnEffects(text) ==
    MemoryWrite(ParseDirectives(text)) \o RelationshipWrite(ParseDirectives(text))
        \o ReplySend(ParseDirectives(text))

\* ------------------------------------------------------------------ store
\* The SQLite file: the tables by name.  A table is its schema tag and its
\* set of rows; user_name is display-only and left out of the rows.
Users == 1..MaxUsers
NoGuild == 0                     \* guild_id of the global scope
Guilds == {1}
GuildIds == {NoGuild} \cup Guilds

NoTable == [exists |-> FALSE, schema |-> "none", rows |-> {}]
EmptyMemories == [exists |-> TRUE, schema |-> "guild", rows |-> {}]
EmptyReactionLog == [exists |-> TRUE, schema |-> "log", rows |-> {}]

HasKey(rows, user_id, guild_id) ==
    \E r \in rows : r.user_id = user_id /\ r.guild_id = guild_id

\* CREATE TABLE IF NOT EXISTS memories (...)
CreateMemoriesSQL(d) ==
    IF d.memories.exists THEN d ELSE [d EXCEPT !.memories = EmptyMemories]

\* CREATE TABLE IF NOT EXISTS reacted_messages (...)
CreateReactionLogSQL(d) ==
    IF d.reacted_messages.exists THEN d ELSE [d EXCEPT !.reacted_messages = EmptyReactionLog]

\* INSERT OR IGNORE INTO memories ... VALUES (user_id, guild_id, name, placeholder)
\* (variant: INSERT OR REPLACE, the default row put in place of the record)
InsertOrReplaceSQL(d, user_id, guild_id) ==
    [d EXCEPT !.memories.rows =
        {r \in @ : ~(r.user_id = user_id /\ r.guild_id = guild_id)} \cup
            {[user_id |-> user_id, guild_id |-> guild_id,
              notes |-> <<Placeholder>>, relationship_status |-> <<Neutral>>]}]
InsertOrIgnoreSQL(d, user_id, guild_id) ==
    IF HasKey(d.memories.rows, user_id, guild_id) THEN d
    ELSE [d EXCEPT !.memories.rows = @ \cup
            {[user_id |-> user_id, guild_id |-> guild_id,
              notes |-> <<Placeholder>>, relationship_status |-> <<Neutral>>]}]

\* get_user_profile: the store after the call, and the tuple it returns
get_user_profile_db(d, user_id, guild_id) == InsertOrIgnoreSQL(d, user_id, guild_id)

get_user_profile(d, user_id, guild_id) ==
    LET found == {r \in get_user_profile_db(d, user_id, guild_id).memories.rows :
                     r.user_id = user_id /\ r.guild_id = guild_id}
    IN IF found = {} THEN [notes |-> <<Placeholder>>, relationship |-> <<Neutral>>]
       ELSE LET r == CHOOSE x \in found : TRUE
            IN [notes |-> r.notes, relationship |-> r.relationship_status]

\* UPDATE memories SET notes = ? WHERE user_id = ? AND guild_id = ?
\* (variant: the guild_id condition left out of the WHERE clause)
set_user_notes_AnyGuild(d, user_id, new_notes, guild_id) ==
    [d EXCEPT !.memories.rows =
        {IF r.user_id = user_id THEN [r EXCEPT !.notes = new_notes] ELSE r : r \in @}]
set_user_notes(d, user_id, new_notes, guild_id) ==
    [d EXCEPT !.memories.rows =
        {IF r.user_id = user_id /\ r.guild_id = guild_id
         THEN [r EXCEPT !.notes = new_notes] ELSE r : r \in @}]

\* (variant: the bullet always added behind the notes read)
append_user_memory_NoReplace(d, user_id, memory_summary, guild_id) ==
    LET notes == get_user_profile(d, user_id, guild_id).notes
    IN set_user_notes(get_user_profile_db(d, user_id, guild_id), user_id,
                      notes \o <<"\n", "- ">> \o memory_summary, guild_id)
append_user_memory(d, user_id, memory_summary, guild_id) ==
    LET notes == get_user_profile(d, user_id, guild_id).notes
        new_notes == IF Contains(notes, Placeholder)
                     THEN <<"- ">> \o memory_summary
                     ELSE notes \o <<"\n", "- ">> \o memory_summary
    IN set_user_notes(get_user_profile_db(d, user_id, guild_id), user_id, new_notes, guild_id)

\* UPDATE memories SET relationship_status = ? WHERE user_id = ? AND guild_id = ?
set_user_relationship(d, user_id, status, guild_id) ==
    [d EXCEPT !.memories.rows =
        {IF r.user_id = user_id /\ r.guild_id = guild_id
         THEN [r EXCEPT !.relationship_status = status] ELSE r : r \in @}]


\* ------------------------------------------------------------------ state
VARIABLES
    boot,                    \* position of AICore.__init__ / the process
    db,                      \* the tables as the connection sees them
    committed,               \* the tables as last committed to the file
    in_txn,                  \* whether the connection has an open transaction
    startups,                \* process starts so far
    migration,               \* how _migrate_database went in this start
    legacy_snapshot,         \* rows of the legacy table when the migration began
    loops_started,           \* whether the three periodic tasks were started
    client,                  \* whether the completion client exists (GEMINI_API_KEY)
    server_settings,         \* bot.config["server_settings"]
    boredom_level,
    is_thinking_in_channel,  \* keys of the guard dict (every value is True)
    stealth_mode,
    msgs,                    \* per message event: position of its on_message task
    effects,                 \* per message event: the store writes and sends it made
    last_call,               \* the latest call of a store method and what it returned
    appended,                \* per key: the summaries passed to append_user_memory so far
    message_loop,            \* position of the running autonomous_message_loop iteration
    reaction_loop,           \* position of the running autonomous_reaction_loop iteration
    summarize_loop,          \* position of the running summarize_memories_loop iteration
    ticks,                   \* iterations started so far, per periodic task, and the
                             \* boredom ticks (all, and skipped ones) since the last reset
    auto_log                 \* per periodic task: what its latest iteration selected,
                             \* requested, sent, reacted to and wrote

startupVars == <<boot, db, committed, in_txn, startups, migration, legacy_snapshot, loops_started>>
configVars == <<client, server_settings>>
coreVars == <<boredom_level, is_thinking_in_channel, stealth_mode>>
msgVars == <<msgs, effects>>
storeVars == <<last_call, appended>>
taskVars == <<message_loop, reaction_loop, summarize_loop, ticks, auto_log>>
vars == <<startupVars, configVars, coreVars, msgVars, storeVars, taskVars>>

\* -------------------------------------------------------- stores to start from
NoteSamples == {<<Placeholder>>, <<"- ", "a">>}
RelSamples == {<<Neutral>>, <<"b">>}
ProfileSamples == [notes : NoteSamples, relationship_status : RelSamples]

\* legacy memories table: one row per user_id, no guild_id column
LegacyTables ==
    {[exists |-> TRUE, schema |-> "legacy",
      rows |-> {[user_id |-> u, notes |-> f[u].notes,
                 relationship_status |-> f[u].relationship_status] : u \in K}] :
        f \in [Users -> ProfileSamples], K \in SUBSET Users}

\* current memories table: one row per (user_id, guild_id)
GuildTables(maxRows) ==
    {[exists |-> TRUE, schema |-> "guild",
      rows |-> {[user_id |-> k[1], guild_id |-> k[2], notes |-> f[k].notes,
                 relationship_status |-> f[k].relationship_status] : k \in K}] :
        f \in [Users \X GuildIds -> ProfileSamples],
        K \in {S \in SUBSET (Users \X GuildIds) : Cardinality(S) <= maxRows}}

StartupStores ==
    [memories : {NoTable} \cup LegacyTables \cup GuildTables(1),
     memories_old : {NoTable},
     reacted_messages : {NoTable, EmptyReactionLog}]

\* A message event: who wrote it, where, and how it addresses the agent.
\* author 0 is the agent's own account; bot is author.bot.
SelfId == 0
IgnoredUsers == {MaxUsers + 1}          \* bot.config["ignored_users"]
Channels == {1, 2, 3}
ChannelGuild(c) == IF c = 3 THEN NoGuild ELSE 1     \* channel 3 is a DM
NoEvent == [author |-> SelfId, bot |-> FALSE, channel |-> 1,
            mentioned |-> FALSE, is_reply |-> FALSE, triggered |-> FALSE]
Events == [author : {SelfId} \cup Users \cup IgnoredUsers, bot : BOOLEAN, channel : Channels,
           mentioned : BOOLEAN, is_reply : BOOLEAN, triggered : BOOLEAN]

\* classifier: what _should_respond_to_message got from the completion
\* service in this cycle ("none" before it is asked)
Undelivered == [pc |-> "undelivered", ev |-> NoEvent, text |-> <<>>, outcome |-> "none",
                classifier |-> "none"]

\* the fields assigned at lines 45-47
FreshCore ==
    /\ boredom_level = 0
    /\ is_thinking_in_channel = {}
    /\ stealth_mode = FALSE

NoMessages ==
    /\ msgs = [m \in 1..MaxMsgs |-> Undelivered]
    /\ effects = [m \in 1..MaxMsgs |-> <<>>]

\* no store method called yet
NoCall == [n |-> 0, op |-> "none", user_id |-> 0, guild_id |-> 0, arg |-> <<>>,
           had |-> FALSE, before |-> <<>>, notes |-> <<>>, relationship |-> <<>>]
NoCalls ==
    /\ last_call = NoCall
    /\ appended = [k \in Users \X GuildIds |-> <<>>]

\* the three periodic tasks between two iterations
\* pc: where the iteration waits; channel: the channel it chose; stealth:
\* stealth_mode when it started; passed: whether it got past its early
\* returns; todo: what it still has to scan; cur: what it is working on
IdleTask == [pc |-> "idle", channel |-> 0, stealth |-> FALSE, passed |-> FALSE,
             todo |-> <<>>, cur |-> <<>>]
NoTicks == [message |-> 0, reaction |-> 0, summarize |-> 0, since_reset |-> 0, skipped |-> 0]
NoActions == [message |-> <<>>, reaction |-> <<>>, summarize |-> <<>>]
IdleTasks ==
    /\ message_loop = IdleTask
    /\ reaction_loop = IdleTask
    /\ summarize_loop = IdleTask
    /\ ticks = NoTicks
    /\ auto_log = NoActions

DefaultSettings == [is_active_in_all_channels |-> FALSE, active_channels |-> {}]
AllChannels == [is_active_in_all_channels |-> TRUE, active_channels |-> {}]

\* ------------------------------------------------------------------ startup
InitStartup ==
    /\ boot = "start"
    /\ db \in StartupStores
    /\ committed = db
    /\ in_txn = FALSE
    /\ startups = 1
    /\ migration = "none"
    /\ legacy_snapshot = {}
    /\ loops_started = FALSE
    /\ client \in BOOLEAN
    /\ server_settings = [default |-> AllChannels]
    /\ FreshCore
    /\ NoMessages
    /\ NoCalls
    /\ IdleTasks

StartupFrame == UNCHANGED <<startups, loops_started, configVars, coreVars, msgVars, storeVars, taskVars>>

\* lines 50-52: the three .start() calls are the last statements of
\* __init__, behind the schema check and the table creation of lines 40-42
\* (variant: they stand before the schema check)
StartsTasks_BeforeMigration(step) == step = "connect"
StartsTasks(step) == step = "finish"

\* __init__ returned or raised (setup_hook of old_main.py, lines 58-69, logs
\* the exception and goes on): the event loop runs what was started
InitReturned == boot \in {"running", "failed"}

\* line 39: sqlite3.connect
Connect ==
    /\ boot = "start"
    /\ boot' = "check"
    /\ loops_started' = (loops_started \/ StartsTasks("connect"))
    /\ UNCHANGED <<db, committed, in_txn, migration, legacy_snapshot>>
    /\ UNCHANGED <<startups, configVars, coreVars, msgVars, storeVars, taskVars>>

\* db.rollback() and the re-raise out of __init__
RollbackAndRaise(step) ==
    /\ db' = committed
    /\ in_txn' = FALSE
    /\ migration' = step
    /\ boot' = "failed"

\* _migrate_database, lines 142-146 and 172-174: SELECT guild_id FROM memories
MigrateCheck ==
    /\ boot = "check"
    /\ IF ~db.memories.exists
       THEN boot' = "failed"                \* "no such table": raise e
       ELSE IF db.memories.schema = "guild"
       THEN boot' = "create_tables"         \* schema is up to date
       ELSE boot' = "begin"                 \* "no such column: guild_id"
    /\ migration' = IF ~db.memories.exists THEN "failed_check"
                    ELSE IF db.memories.schema = "guild" THEN "up_to_date"
                    ELSE "started"
    /\ legacy_snapshot' = IF db.memories.exists /\ db.memories.schema = "legacy"
                          THEN db.memories.rows ELSE legacy_snapshot
    /\ UNCHANGED <<db, committed, in_txn>>
    /\ StartupFrame

\* line 149: BEGIN TRANSACTION
MigrateBegin ==
    /\ boot = "begin"
    /\ in_txn' = TRUE
    /\ boot' = "rename"
    /\ UNCHANGED <<db, committed, migration, legacy_snapshot>>
    /\ StartupFrame

\* line 152: ALTER TABLE memories RENAME TO memories_old
MigrateRename ==
    /\ boot = "rename"
    /\ \E ok \in BOOLEAN :
        IF ok /\ ~db.memories_old.exists
        THEN /\ db' = [db EXCEPT !.memories_old = db.memories, !.memories = NoTable]
             /\ boot' = "create"
             /\ UNCHANGED <<committed, in_txn, migration>>
        ELSE /\ RollbackAndRaise("failed_rename")
             /\ UNCHANGED committed
    /\ UNCHANGED legacy_snapshot
    /\ StartupFrame

\* create_memory_table, lines 178-190: CREATE TABLE IF NOT EXISTS, then commit
create_memory_table(d) == CreateMemoriesSQL(d)

\* line 155: self.create_memory_table(), whose commit ends the open transaction
MigrateCreate ==
    /\ boot = "create"
    /\ \E ok \in BOOLEAN :
        IF ok
        THEN /\ db' = create_memory_table(db)
             /\ committed' = db'
             /\ in_txn' = FALSE
             /\ boot' = "copy"
             /\ UNCHANGED migration
        ELSE /\ RollbackAndRaise("failed_create")
             /\ UNCHANGED committed
    /\ UNCHANGED legacy_snapshot
    /\ StartupFrame

\* lines 158-161: INSERT INTO memories SELECT user_id, 0, ... FROM memories_old
\* (variant: the notes column left to the placeholder)
CopyRows_DefaultNotes(old) ==
    {[user_id |-> r.user_id, guild_id |-> 0, notes |-> <<Placeholder>>,
      relationship_status |-> r.relationship_status] : r \in old}
CopyRows(old) ==
    {[user_id |-> r.user_id, guild_id |-> 0, notes |-> r.notes,
      relationship_status |-> r.relationship_status] : r \in old}

\* The INSERT opens a transaction of its own when none is open.
MigrateCopy ==
    /\ boot = "copy"
    /\ \E ok \in BOOLEAN :
        IF ok
        THEN /\ db' = [db EXCEPT !.memories.rows = @ \cup CopyRows(db.memories_old.rows)]
             /\ in_txn' = TRUE
             /\ boot' = "drop"
             /\ UNCHANGED <<committed, migration>>
        ELSE /\ RollbackAndRaise("failed_copy")
             /\ UNCHANGED committed
    /\ UNCHANGED legacy_snapshot
    /\ StartupFrame

\* line 164: DROP TABLE memories_old
MigrateDrop ==
    /\ boot = "drop"
    /\ \E ok \in BOOLEAN :
        IF ok
        THEN /\ db' = [db EXCEPT !.memories_old = NoTable]
             /\ boot' = "commit"
             /\ UNCHANGED <<committed, in_txn, migration>>
        ELSE /\ RollbackAndRaise("failed_drop")
             /\ UNCHANGED committed
    /\ UNCHANGED legacy_snapshot
    /\ StartupFrame

\* line 166: self.db.commit()
MigrateCommit ==
    /\ boot = "commit"
    /\ \E ok \in BOOLEAN :
        IF ok
        THEN /\ committed' = db
             /\ in_txn' = FALSE
             /\ boot' = "create_tables"
             /\ migration' = "done"
             /\ UNCHANGED db
        ELSE /\ RollbackAndRaise("failed_commit")
             /\ UNCHANGED committed
    /\ UNCHANGED legacy_snapshot
    /\ StartupFrame

\* lines 41-52: the two CREATE TABLE IF NOT EXISTS with their commits, the
\* state fields, and the start of the three periodic tasks
FinishInit ==
    /\ boot = "create_tables"
    /\ db' = CreateReactionLogSQL(create_memory_table(db))
    /\ committed' = db'
    /\ in_txn' = FALSE
    /\ boredom_level' = 0
    /\ is_thinking_in_channel' = {}
    /\ stealth_mode' = FALSE
    /\ loops_started' = (loops_started \/ StartsTasks("finish"))
    /\ boot' = "running"
    /\ UNCHANGED <<startups, migration, legacy_snapshot, configVars, msgVars, storeVars, taskVars>>

\* the process is started again on the same file
Restart ==
    /\ boot \in {"failed", "running"}
    /\ startups < MaxStartups
    /\ startups' = startups + 1
    /\ boot' = "start"
    /\ db' = committed
    /\ in_txn' = FALSE
    /\ migration' = "none"
    /\ loops_started' = FALSE
    /\ boredom_level' = 0
    /\ is_thinking_in_channel' = {}
    /\ stealth_mode' = FALSE
    /\ UNCHANGED <<committed, legacy_snapshot, configVars, msgVars, storeVars, taskVars>>

NextStartup ==
    \/ Connect
    \/ MigrateCheck
    \/ MigrateBegin
    \/ MigrateRename
    \/ MigrateCreate
    \/ MigrateCopy
    \/ MigrateDrop
    \/ MigrateCommit
    \/ FinishInit
    \/ Restart

SpecStartup == InitStartup /\ [][NextStartup]_vars


\* ------------------------------------------------------------- on_message
\* _get_server_settings, lines 55-61: the guild's entry, else "default",
\* else inactive everywhere.  GuildKey is str(guild_id).
GuildKey(g) == IF g = 1 THEN "1" ELSE "0"
GetServerSettings(settings, guild_id) ==
    IF GuildKey(guild_id) \in DOMAIN settings THEN settings[GuildKey(guild_id)]
    ELSE IF "default" \in DOMAIN settings THEN settings["default"]
    ELSE DefaultSettings

\* lines 327-331: own, automated and ignored authors
\* (variant: the ignored_users test left out)
FilteredAuthor_NoIgnoreList(ev) == ev.author = SelfId \/ ev.bot
FilteredAuthor(ev) == ev.author = SelfId \/ ev.bot \/ ev.author \in IgnoredUsers

\* lines 333-336: a guild channel outside the activation policy
PolicyRejects(settings, ev) ==
    /\ ChannelGuild(ev.channel) # NoGuild
    /\ ~GetServerSettings(settings, ChannelGuild(ev.channel)).is_active_in_all_channels
    /\ ev.channel \notin GetServerSettings(settings, ChannelGuild(ev.channel)).active_channels

\* line 338: self.is_thinking_in_channel.get(message.channel.id)
\* (variant: the busy test left out)
IsBusy_Never(thinking, channel) == FALSE
IsBusy(thinking, channel) == channel \in thinking

\* line 358: self.is_thinking_in_channel[message.channel.id] = True
\* (variant: the bit not yet set when on_message first awaits)
GuardAtStart_AfterAwait(thinking, channel) == thinking
GuardAtStart(thinking, channel) == thinking \cup {channel}

\* lines 342-354
\* (variant: a reply to the agent does not count)
Addressed_NoReply(ev) == ev.mentioned \/ ev.triggered
Addressed(ev) == ev.mentioned \/ ev.is_reply \/ ev.triggered

\* lines 367-368: finally: self.is_thinking_in_channel.pop(channel.id, None)
\* (variant: the pop placed after the calls, outside a finally)
GuardAfterCycle_NoFinally(thinking, channel, outcome) ==
    IF outcome \in {"history_failed", "profile_failed"} THEN thinking ELSE thinking \ {channel}
GuardAfterCycle(thinking, channel, outcome) == thinking \ {channel}

InFlight == {"await_history", "await_classify", "await_reply", "typing", "await_send"}

\* line 271: message.guild.id if message.guild else 0
\* (variant: every turn uses the global scope)
context_guild_id_Global(ev) == NoGuild
context_guild_id(ev) == ChannelGuild(ev.channel)

\* the task of message m returns or raises out of on_message
Finish(m, outcome, text) ==
    /\ msgs' = [msgs EXCEPT ![m].pc = "done", ![m].outcome = outcome, ![m].text = text]
    /\ is_thinking_in_channel' =
           GuardAfterCycle(is_thinking_in_channel, msgs[m].ev.channel, outcome)

\* _should_respond_to_message, lines 237 and 260-266: no client means no,
\* an exception means no, otherwise "yes" in decision
\* (variant: an exception of the classifier call counts as yes)
ShouldRespond_FailOpen(hasClient, answer) == hasClient /\ answer # "no"
ShouldRespond(hasClient, answer) == hasClient /\ answer = "yes"

\* the classifier said no: on_message falls through to its finally
Declined(m, answer) ==
    /\ msgs' = [msgs EXCEPT ![m].pc = "done", ![m].outcome = "declined",
                            ![m].classifier = answer]
    /\ is_thinking_in_channel' =
           GuardAfterCycle(is_thinking_in_channel, msgs[m].ev.channel, "declined")

\* on_message up to its first await (lines 326-361), for the next event
OnMessage(EventSet, limit) ==
    /\ boot = "running"
    /\ \E m \in {k \in 1..limit : /\ msgs[k].pc = "undelivered"
                                   /\ \A j \in 1..(k - 1) : msgs[j].pc # "undelivered"},
          ev \in EventSet :
        /\ msgs[m].pc = "undelivered"
        /\ IF FilteredAuthor(ev) \/ PolicyRejects(server_settings, ev)
           THEN /\ msgs' = [msgs EXCEPT ![m].pc = "ignored", ![m].ev = ev]
                /\ UNCHANGED is_thinking_in_channel
           ELSE IF IsBusy(is_thinking_in_channel, ev.channel)
           THEN /\ msgs' = [msgs EXCEPT ![m].pc = "dropped", ![m].ev = ev]
                /\ UNCHANGED is_thinking_in_channel
           ELSE IF ~Addressed(ev)
           THEN /\ msgs' = [msgs EXCEPT ![m].pc = "ignored", ![m].ev = ev]
                /\ UNCHANGED is_thinking_in_channel
           ELSE /\ msgs' = [msgs EXCEPT ![m].pc = "await_history", ![m].ev = ev]
                /\ is_thinking_in_channel' = GuardAtStart(is_thinking_in_channel, ev.channel)
    /\ UNCHANGED <<startupVars, configVars, storeVars, taskVars, boredom_level, stealth_mode, effects>>

\* lines 361-365: channel.history returns or raises; _should_respond_to_message
\* up to its completion request (line 237: no client means no)
HistoryDone ==
    /\ \E m \in 1..MaxMsgs, ok \in BOOLEAN :
        /\ msgs[m].pc = "await_history"
        /\ IF ~ok THEN Finish(m, "history_failed", <<>>)
           ELSE IF ~client THEN Declined(m, "no_client")
           ELSE /\ msgs' = [msgs EXCEPT ![m].pc = "await_classify"]
                /\ UNCHANGED is_thinking_in_channel
    /\ UNCHANGED <<startupVars, configVars, storeVars, taskVars, boredom_level, stealth_mode, effects>>

\* lines 260-266 and 365-366, then get_contextual_response up to its
\* completion request (lines 269-297): the classifier's answer holds "yes",
\* does not, or the call raised; the profile read may raise
ClassifyDone ==
    /\ \E m \in {k \in 1..MaxMsgs : msgs[k].pc = "await_classify"},
          answer \in {"yes", "no", "error"}, storeOk \in BOOLEAN :
        /\ msgs[m].pc = "await_classify"
        /\ IF ~ShouldRespond(client, answer)
           THEN /\ Declined(m, answer)
                /\ UNCHANGED <<db, committed>>
           ELSE IF ~client
           THEN /\ Declined(m, answer)
                /\ UNCHANGED <<db, committed>>
           ELSE IF ~storeOk
           THEN /\ msgs' = [msgs EXCEPT ![m].pc = "done", ![m].outcome = "profile_failed",
                                        ![m].classifier = answer]
                /\ is_thinking_in_channel' =
                       GuardAfterCycle(is_thinking_in_channel, msgs[m].ev.channel,
                                       "profile_failed")
                /\ UNCHANGED <<db, committed>>
           ELSE /\ db' = get_user_profile_db(db, msgs[m].ev.author, context_guild_id(msgs[m].ev))
                /\ committed' = db'
                /\ msgs' = [msgs EXCEPT ![m].pc = "await_reply", ![m].classifier = answer]
                /\ UNCHANGED is_thinking_in_channel
    /\ UNCHANGED <<boot, in_txn, startups, migration, legacy_snapshot, loops_started>>
    /\ UNCHANGED <<configVars, storeVars, taskVars, boredom_level, stealth_mode, effects>>

\* lines 297-315: the completion returns text (or raises), the text is cut
\* into reply and directives, and the directives are written as they are
\* found.  An exception anywhere in here is caught at line 322.
ReplyDone(TextSet) ==
    /\ \E m \in {k \in 1..MaxMsgs : msgs[k].pc = "await_reply"}, t \in TextSet,
          serviceOk \in BOOLEAN, fail \in {"none", "append", "set_relationship"} :
        LET u == msgs[m].ev.author
            g == context_guild_id(msgs[m].ev)
            p == ParseDirectives(t)
            wantMem == MemoryWrite(p) # <<>>
            wantRel == RelationshipWrite(p) # <<>>
            db1 == IF wantMem THEN append_user_memory(db, u, p.memory_summary, g) ELSE db
            db2 == IF wantRel THEN set_user_relationship(db1, u, p.new_relationship, g) ELSE db1
            e1 == MemoryWrite(p)
            e2 == RelationshipWrite(p)
        IN /\ msgs[m].pc = "await_reply"
           /\ IF ~serviceOk
              THEN /\ Finish(m, "service_failed", <<>>)
                   /\ UNCHANGED <<db, committed, effects>>
              ELSE IF wantMem /\ fail = "append"
              THEN /\ Finish(m, "append_failed", t)
                   /\ UNCHANGED <<db, committed, effects>>
              ELSE IF p.raised
              THEN /\ Finish(m, "parse_error", t)
                   /\ db' = db1
                   /\ committed' = db'
                   /\ effects' = [effects EXCEPT ![m] = @ \o e1]
              ELSE IF wantRel /\ fail = "set_relationship"
              THEN /\ Finish(m, "relationship_failed", t)
                   /\ db' = db1
                   /\ committed' = db'
                   /\ effects' = [effects EXCEPT ![m] = @ \o e1]
              ELSE /\ db' = db2
                   /\ committed' = db'
                   /\ effects' = [effects EXCEPT ![m] = @ \o e1 \o e2]
                   /\ IF ReplySend(p) = <<>>
                      THEN Finish(m, "no_reply", t)
                      ELSE /\ msgs' = [msgs EXCEPT ![m].pc = "typing", ![m].text = t]
                           /\ UNCHANGED is_thinking_in_channel
    /\ UNCHANGED <<boot, in_txn, startups, migration, legacy_snapshot, loops_started>>
    /\ UNCHANGED <<configVars, storeVars, taskVars, boredom_level, stealth_mode>>

\* lines 316-318: entering the typing scope and the typing delay
TypingDone ==
    /\ \E m \in 1..MaxMsgs, ok \in BOOLEAN :
        /\ msgs[m].pc = "typing"
        /\ IF ok
           THEN /\ msgs' = [msgs EXCEPT ![m].pc = "await_send"]
                /\ UNCHANGED is_thinking_in_channel
           ELSE Finish(m, "typing_failed", msgs[m].text)
    /\ UNCHANGED <<startupVars, configVars, storeVars, taskVars, boredom_level, stealth_mode, effects>>

\* line 320: self.boredom_level = 0, and the boredom ticks counted anew
\* (variant: the counter left as it is after the reply)
BoredomAfterReply_Kept(level) == level
BoredomAfterReply(level) == 0
TicksAfterReset(t) == [t EXCEPT !.since_reset = 0, !.skipped = 0]

\* lines 319-320: message.reply returns or raises; boredom_level = 0
SendDone ==
    /\ \E m \in 1..MaxMsgs, ok \in BOOLEAN :
        /\ msgs[m].pc = "await_send"
        /\ IF ok
           THEN /\ Finish(m, "replied", msgs[m].text)
                /\ effects' = [effects EXCEPT ![m] = @ \o ReplySend(ParseDirectives(msgs[m].text))]
                /\ boredom_level' = BoredomAfterReply(boredom_level)
                /\ ticks' = TicksAfterReset(ticks)
           ELSE /\ Finish(m, "send_failed", msgs[m].text)
                /\ UNCHANGED <<effects, boredom_level, ticks>>
    /\ UNCHANGED <<startupVars, configVars, storeVars, stealth_mode>>
    /\ UNCHANGED <<message_loop, reaction_loop, summarize_loop, auto_log>>

\* ------------------------------------------------- the running agent
\* messages that pass the author filters, in a guild channel and in a DM
CoreEvents ==
    {ev \in Events : /\ ev.author = 1 /\ ~ev.bot /\ ev.channel \in {1, 3}
                     /\ ~ev.is_reply /\ ~ev.triggered}
CoreTexts == {<<"a">>, <<MEMORIZE, "b">>, <<"a", RELATIONSHIP, "b">>}
CoreSettings == {[default |-> AllChannels], [default |-> [DefaultSettings EXCEPT !.active_channels = {1}]]}

RunningStore(memories) ==
    [memories |-> memories, memories_old |-> NoTable, reacted_messages |-> EmptyReactionLog]

\* the agent after __init__ returned, bored ticks of the boredom loop later
Running(stores, bored) ==
    /\ boot = "running"
    /\ db \in stores
    /\ committed = db
    /\ in_txn = FALSE
    /\ startups = 1
    /\ migration = "up_to_date"
    /\ legacy_snapshot = {}
    /\ loops_started = TRUE
    /\ boredom_level \in bored
    /\ is_thinking_in_channel = {}
    /\ stealth_mode = FALSE
    /\ NoMessages
    /\ NoCalls
    /\ IdleTasks

Init ==
    /\ Running({RunningStore(EmptyMemories)}, {0})
    /\ client \in BOOLEAN
    /\ server_settings \in CoreSettings

Next ==
    \/ OnMessage(CoreEvents, MaxMsgs)
    \/ HistoryDone
    \/ ClassifyDone
    \/ ReplyDone(CoreTexts)
    \/ TypingDone
    \/ SendDone

Spec == Init /\ [][Next]_vars

\* ------------------------------------- two messages of any kind
\* Any author, any channel, addressed in any way or not at all, under each
\* shape of the activation policy.
GateEvents == {ev \in Events : /\ ev.author \in {SelfId, 1} \cup IgnoredUsers
                               /\ ev.bot => ev.author = 1}
GateSettings ==
    CoreSettings \cup {[default |-> DefaultSettings]} \cup
        {("1" :> [DefaultSettings EXCEPT !.active_channels = {2}]) @@ ("default" :> AllChannels)}
GateTexts == {<<"a">>}

InitGate ==
    /\ Running({RunningStore(EmptyMemories)}, {0})
    /\ client = TRUE
    /\ server_settings \in GateSettings

NextGate ==
    \/ OnMessage(GateEvents, 2)
    \/ HistoryDone
    \/ ClassifyDone
    \/ ReplyDone(GateTexts)
    \/ TypingDone
    \/ SendDone

SpecGate == InitGate /\ [][NextGate]_vars

\* ------------------------------------------- one reactive turn, any text
\* One addressed message in a guild channel; the completion text ranges
\* over every text of the bounded alphabet.
ParseEvents ==
    {ev \in Events : /\ ev.author = 1 /\ ~ev.bot /\ ev.channel = 1
                     /\ ev.mentioned /\ ~ev.is_reply /\ ~ev.triggered}

PriorProfile ==
    [EmptyMemories EXCEPT !.rows = {[user_id |-> 1, guild_id |-> 1, notes |-> <<"- ", "a">>,
                                     relationship_status |-> <<"b">>]}]

InitParse ==
    /\ Running({RunningStore(EmptyMemories), RunningStore(PriorProfile)}, 0..MaxBoredom)
    /\ client = TRUE
    /\ server_settings = [default |-> AllChannels]

NextParse ==
    \/ OnMessage(ParseEvents, 1)
    \/ HistoryDone
    \/ ClassifyDone
    \/ ReplyDone(Texts)
    \/ TypingDone
    \/ SendDone

SpecParse == InitParse /\ [][NextParse]_vars

\* ------------------------------------------------------ periodic tasks
\* The three tasks.loop tasks started at lines 50-52.  A task runs one
\* iteration at a time: the next one starts only after the body returned.
BoredomThreshold == 2     \* bot.config["boredom_threshold"]
MaxTicks == 3             \* iterations of one periodic task in one run

\* channel.permissions_for(guild.me): what the agent may do in a channel
ChannelPermissions(c) ==
    IF c = 1 THEN {"send_messages", "add_reactions"}
    ELSE IF c = 2 THEN {"add_reactions"}
    ELSE {}
TextChannels(g) == {c \in Channels : ChannelGuild(c) = g}

\* _get_eligible_channels, lines 102-115
GetEligibleChannels(settings, permission_check) ==
    UNION {LET st == GetServerSettings(settings, g)
           IN IF st.is_active_in_all_channels
              THEN {c \in TextChannels(g) : permission_check \in ChannelPermissions(c)}
              ELSE {c \in st.active_channels \cap Channels :
                       /\ ChannelGuild(c) = g
                       /\ permission_check \in ChannelPermissions(c)} : g \in Guilds}

\* lines 372-385: !stealth on | off | anything else
StealthCommand ==
    /\ boot = "running"
    /\ \E mode \in {"on", "off", "other"} :
          stealth_mode' = IF mode = "on" THEN TRUE
                          ELSE IF mode = "off" THEN FALSE ELSE stealth_mode
    /\ UNCHANGED <<startupVars, configVars, msgVars, storeVars, taskVars>>
    /\ UNCHANGED <<boredom_level, is_thinking_in_channel>>

\* lines 585-587: if self.boredom_level < boredom_threshold: return
\* (variant: the iteration also returns when the counter equals the threshold)
BelowThreshold_Inclusive(level) == level <= BoredomThreshold
BelowThreshold(level) == level < BoredomThreshold

Did(kind, channel, what) == [kind |-> kind, channel |-> channel, what |-> what]

\* autonomous_message_loop, lines 582-592: one iteration up to its first await
MessageTick ==
    /\ InitReturned
    /\ loops_started
    /\ message_loop.pc = "idle"
    /\ ticks.message < MaxTicks
    /\ IF stealth_mode \/ ~client
       THEN /\ message_loop' = [IdleTask EXCEPT !.stealth = stealth_mode]
            /\ ticks' = [ticks EXCEPT !.message = @ + 1, !.since_reset = @ + 1,
                                      !.skipped = @ + 1]
            /\ auto_log' = [auto_log EXCEPT !.message = <<>>]
            /\ UNCHANGED boredom_level
       ELSE /\ boredom_level' = boredom_level + 1
            /\ ticks' = [ticks EXCEPT !.message = @ + 1, !.since_reset = @ + 1]
            /\ IF BelowThreshold(boredom_level + 1)
               THEN /\ message_loop' = IdleTask
                    /\ auto_log' = [auto_log EXCEPT !.message = <<>>]
               ELSE IF GetEligibleChannels(server_settings, "send_messages") = {}
               THEN /\ message_loop' = [IdleTask EXCEPT !.passed = TRUE]
                    /\ auto_log' = [auto_log EXCEPT !.message = <<>>]
               ELSE \E channel \in GetEligibleChannels(server_settings, "send_messages") :
                    /\ message_loop' = [IdleTask EXCEPT !.pc = "await_history",
                                                        !.passed = TRUE, !.channel = channel]
                    /\ auto_log' = [auto_log EXCEPT
                                       !.message = <<Did("select", channel, <<>>)>>]
    /\ UNCHANGED <<startupVars, configVars, msgVars, storeVars>>
    /\ UNCHANGED <<is_thinking_in_channel, stealth_mode, reaction_loop, summarize_loop>>

MessageFrame ==
    /\ UNCHANGED <<startupVars, configVars, msgVars, storeVars>>
    /\ UNCHANGED <<is_thinking_in_channel, stealth_mode, reaction_loop, summarize_loop>>

\* lines 597-602: channel.history returns and the completion is requested,
\* or it raises out of the body: the task runs the body again later, or ends
MessageHistory ==
    /\ message_loop.pc = "await_history"
    /\ \E outcome \in {"ok", "retry", "stop"} :
        IF outcome = "ok"
        THEN /\ message_loop' = [message_loop EXCEPT !.pc = "await_generate"]
             /\ auto_log' = [auto_log EXCEPT
                                !.message = Append(@, Did("request", message_loop.channel, <<>>))]
        ELSE /\ message_loop' = [message_loop EXCEPT
                                    !.pc = IF outcome = "retry" THEN "idle" ELSE "stopped"]
             /\ UNCHANGED auto_log
    /\ UNCHANGED <<boredom_level, ticks>>
    /\ MessageFrame

\* lines 610-612: the except branch only logs
\* (variant: the except branch resets the counter)
BoredomAfterFailure_Reset(level) == 0
BoredomAfterFailure(level) == level

\* lines 602-605: the completion returns a text, returns none, or raises
MessageGenerate ==
    /\ message_loop.pc = "await_generate"
    /\ \E response \in {"text", "empty", "error"} :
        /\ message_loop' = [message_loop EXCEPT
                                !.pc = IF response = "text" THEN "typing" ELSE "idle"]
        /\ boredom_level' = IF response = "error" THEN BoredomAfterFailure(boredom_level)
                             ELSE boredom_level
    /\ UNCHANGED <<ticks, auto_log>>
    /\ MessageFrame

\* lines 605-607: entering the typing scope and the typing delay
MessageTyping ==
    /\ message_loop.pc = "typing"
    /\ \E ok \in BOOLEAN :
        /\ message_loop' = [message_loop EXCEPT !.pc = IF ok THEN "await_send" ELSE "idle"]
        /\ boredom_level' = IF ok THEN boredom_level ELSE BoredomAfterFailure(boredom_level)
    /\ UNCHANGED <<ticks, auto_log>>
    /\ MessageFrame

\* line 609: self.boredom_level = 0
BoredomAfterOutreach(level) == 0

\* lines 608-612: channel.send returns or raises; boredom_level = 0
MessageSend ==
    /\ message_loop.pc = "await_send"
    /\ \E ok \in BOOLEAN :
        /\ message_loop' = [message_loop EXCEPT !.pc = "idle"]
        /\ IF ok
           THEN /\ auto_log' = [auto_log EXCEPT
                                   !.message = Append(@, Did("send", message_loop.channel, <<>>))]
                /\ boredom_level' = BoredomAfterOutreach(boredom_level)
                /\ ticks' = TicksAfterReset(ticks)
           ELSE /\ boredom_level' = BoredomAfterFailure(boredom_level)
                /\ UNCHANGED <<auto_log, ticks>>
    /\ MessageFrame

\* the boredom loop next to one reactive turn and the stealth command
BoredomSettings == CoreSettings \cup {[default |-> DefaultSettings]}

InitBoredom ==
    /\ Running({RunningStore(EmptyMemories)}, {0})
    /\ client \in BOOLEAN
    /\ server_settings \in BoredomSettings

NextBoredom ==
    \/ MessageTick
    \/ MessageHistory
    \/ MessageGenerate
    \/ MessageTyping
    \/ MessageSend
    \/ StealthCommand
    \/ OnMessage(ParseEvents, 1)
    \/ HistoryDone
    \/ ClassifyDone
    \/ ReplyDone(CoreTexts)
    \/ TypingDone
    \/ SendDone

SpecBoredom == InitBoredom /\ [][NextBoredom]_vars

\* ------------------------------------------------ the passive reactions
ReactionWindow == 2       \* channel.history(limit=10), scaled down

\* the message ids of a channel, newest first
ChannelHistory(c) ==
    IF c = 1 THEN <<13, 12, 11>> ELSE IF c = 2 THEN <<22, 21>> ELSE <<>>
History(c, limit) ==
    SubSeq(ChannelHistory(c), 1, IF Len(ChannelHistory(c)) < limit
                                 THEN Len(ChannelHistory(c)) ELSE limit)

\* SELECT 1 FROM reacted_messages WHERE message_id = ?
HasReacted(d, message_id) == [message_id |-> message_id] \in d.reacted_messages.rows

\* INSERT INTO reacted_messages (message_id) VALUES (?): IntegrityError on a
\* message_id that is already there
\* (variant: INSERT OR IGNORE)
InsertReactedSQL_OrIgnore(d, message_id) ==
    [raised |-> FALSE,
     db |-> [d EXCEPT !.reacted_messages.rows = @ \cup {[message_id |-> message_id]}]]
InsertReactedSQL(d, message_id) ==
    [raised |-> HasReacted(d, message_id),
     db |-> [d EXCEPT !.reacted_messages.rows = @ \cup {[message_id |-> message_id]}]]

\* lines 645-647: the messages before the first one not yet reacted to are
\* passed over
\* (variant: no message is passed over)
SkipReacted_None(todo, d) == todo
RECURSIVE SkipReacted(_, _)
SkipReacted(todo, d) ==
    IF todo = <<>> THEN <<>>
    ELSE IF HasReacted(d, Head(todo)) THEN SkipReacted(Tail(todo), d)
    ELSE todo

\* line 658: break, the rest of the window is left alone
\* (variant: no break, the scan goes on behind the reaction)
AfterReaction_NoBreak(todo) == todo
AfterReaction(todo) == <<>>

ReactionFrame ==
    /\ UNCHANGED <<boot, in_txn, startups, migration, legacy_snapshot, loops_started>>
    /\ UNCHANGED <<configVars, coreVars, msgVars, storeVars>>
    /\ UNCHANGED <<message_loop, summarize_loop>>

\* the scan reaches its next message: the emoji is requested for the first
\* message of todo that is not in the log, or the iteration ends
ReactionScan(todo, d, log) ==
    LET rest == SkipReacted(todo, d)
    IN IF rest = <<>>
       THEN /\ reaction_loop' = [reaction_loop EXCEPT !.pc = "idle", !.todo = <<>>, !.cur = <<>>]
            /\ auto_log' = [auto_log EXCEPT !.reaction = log]
       ELSE /\ reaction_loop' = [reaction_loop EXCEPT !.pc = "await_emoji",
                                                      !.todo = Tail(rest), !.cur = <<Head(rest)>>]
            /\ auto_log' = [auto_log EXCEPT !.reaction =
                               Append(log, Did("request", reaction_loop.channel, Head(rest)))]

\* autonomous_reaction_loop, lines 636-645: one iteration up to its first await
ReactionTick ==
    /\ InitReturned
    /\ loops_started
    /\ reaction_loop.pc = "idle"
    /\ ticks.reaction < MaxTicks
    /\ ticks' = [ticks EXCEPT !.reaction = @ + 1]
    /\ IF stealth_mode \/ ~client
       THEN /\ reaction_loop' = [IdleTask EXCEPT !.stealth = stealth_mode]
            /\ auto_log' = [auto_log EXCEPT !.reaction = <<>>]
       ELSE IF GetEligibleChannels(server_settings, "add_reactions") = {}
       THEN /\ reaction_loop' = [IdleTask EXCEPT !.passed = TRUE]
            /\ auto_log' = [auto_log EXCEPT !.reaction = <<>>]
       ELSE \E channel \in GetEligibleChannels(server_settings, "add_reactions") :
            /\ reaction_loop' = [IdleTask EXCEPT !.pc = "await_history",
                                                 !.passed = TRUE, !.channel = channel]
            /\ auto_log' = [auto_log EXCEPT !.reaction = <<Did("select", channel, <<>>)>>]
    /\ UNCHANGED <<db, committed>>
    /\ ReactionFrame

\* lines 645-650: channel.history(limit=10) returns its messages or raises
ReactionHistory ==
    /\ reaction_loop.pc = "await_history"
    /\ \E ok \in BOOLEAN :
        IF ok
        THEN ReactionScan(History(reaction_loop.channel, ReactionWindow), db, auto_log.reaction)
        ELSE /\ reaction_loop' = [reaction_loop EXCEPT !.pc = "idle"]
             /\ UNCHANGED auto_log
    /\ UNCHANGED <<db, committed, ticks>>
    /\ ReactionFrame

\* lines 650-653: the completion returns an emoji, returns blank text, or raises
ReactionEmoji ==
    /\ reaction_loop.pc = "await_emoji"
    /\ \E response \in {"emoji", "blank", "error"} :
        IF response = "emoji"
        THEN /\ reaction_loop' = [reaction_loop EXCEPT !.pc = "await_add"]
             /\ UNCHANGED auto_log
        ELSE IF response = "blank"
        THEN ReactionScan(reaction_loop.todo, db, auto_log.reaction)
        ELSE /\ reaction_loop' = [reaction_loop EXCEPT !.pc = "idle"]
             /\ UNCHANGED auto_log
    /\ UNCHANGED <<db, committed, ticks>>
    /\ ReactionFrame

\* lines 654-658: message.add_reaction returns or raises; the INSERT, the
\* commit and the break
ReactionAdd ==
    /\ reaction_loop.pc = "await_add"
    /\ \E ok \in BOOLEAN, storeOk \in BOOLEAN :
        LET id == reaction_loop.cur[1]
            ins == InsertReactedSQL(db, id)
            reacted == Append(auto_log.reaction, Did("react", reaction_loop.channel, id))
        IN IF ~ok
           THEN /\ reaction_loop' = [reaction_loop EXCEPT !.pc = "idle"]
                /\ UNCHANGED <<auto_log, db, committed>>
           ELSE IF ins.raised \/ ~storeOk
           THEN /\ reaction_loop' = [reaction_loop EXCEPT !.pc = "idle"]
                /\ auto_log' = [auto_log EXCEPT !.reaction = reacted]
                /\ UNCHANGED <<db, committed>>
           ELSE /\ db' = ins.db
                /\ committed' = db'
                /\ ReactionScan(AfterReaction(reaction_loop.todo), ins.db,
                                Append(reacted, Did("logged", reaction_loop.channel, id)))
    /\ UNCHANGED ticks
    /\ ReactionFrame

LoggedStore ==
    [RunningStore(EmptyMemories) EXCEPT !.reacted_messages.rows = {[message_id |-> 13]}]

InitReaction ==
    /\ Running({RunningStore(EmptyMemories), LoggedStore}, {0})
    /\ client \in BOOLEAN
    /\ server_settings \in BoredomSettings

NextReaction ==
    \/ ReactionTick
    \/ ReactionHistory
    \/ ReactionEmoji
    \/ ReactionAdd
    \/ StealthCommand

SpecReaction == InitReaction /\ [][NextReaction]_vars

\* ------------------------------------------------ memory summarization
SummarizeThreshold == 2   \* ai_settings["memory_summarization_threshold"], in tokens
SummaryTexts == {<<>>, <<" ", "b">>}

\* cursor.fetchall(): the rows of memories in some order
FetchAll(d) ==
    {order \in [1..Cardinality(d.memories.rows) -> d.memories.rows] :
        \A i, j \in DOMAIN order : i # j => order[i] # order[j]}

\* line 623: if len(notes) > threshold
NeedsSummary(row) == Len(row.notes) > SummarizeThreshold

SummarizeFrame ==
    /\ UNCHANGED <<boot, in_txn, startups, migration, legacy_snapshot, loops_started>>
    /\ UNCHANGED <<configVars, coreVars, msgVars, storeVars>>
    /\ UNCHANGED <<message_loop, reaction_loop>>

\* the for loop reaches its next record over the threshold and requests its
\* summary, or the iteration ends
SummarizeScan(task, todo, log) ==
    LET rest == SelectSeq(todo, NeedsSummary)
    IN IF rest = <<>>
       THEN /\ summarize_loop' = [task EXCEPT !.pc = "idle", !.todo = <<>>, !.cur = <<>>]
            /\ auto_log' = [auto_log EXCEPT !.summarize = log]
       ELSE /\ summarize_loop' = [task EXCEPT !.pc = "await_summary",
                                              !.todo = Tail(rest), !.cur = <<Head(rest)>>]
            /\ auto_log' = [auto_log EXCEPT !.summarize =
                               Append(log, Did("request", 0,
                                               <<Head(rest).user_id, Head(rest).guild_id>>))]

\* summarize_memories_loop, lines 616-627: one iteration up to its first
\* await.  The SELECT of line 619 is outside the try: when it raises, the
\* exception leaves the body and the task ends.
SummarizeTick ==
    /\ InitReturned
    /\ loops_started
    /\ summarize_loop.pc = "idle"
    /\ ticks.summarize < MaxTicks
    /\ ticks' = [ticks EXCEPT !.summarize = @ + 1]
    /\ IF ~client
       THEN /\ summarize_loop' = [IdleTask EXCEPT !.stealth = stealth_mode]
            /\ auto_log' = [auto_log EXCEPT !.summarize = <<>>]
       ELSE \/ /\ summarize_loop' = [IdleTask EXCEPT !.pc = "stopped",
                                                      !.stealth = stealth_mode, !.passed = TRUE]
               /\ auto_log' = [auto_log EXCEPT !.summarize = <<>>]
            \/ \E rows \in FetchAll(db) :
                  SummarizeScan([IdleTask EXCEPT !.stealth = stealth_mode, !.passed = TRUE],
                                rows, <<>>)
    /\ UNCHANGED <<db, committed>>
    /\ SummarizeFrame

\* lines 630-631: the except branch is inside the for loop, which goes on
\* with the records that are left
\* (variant: the failure ends the for loop)
AfterSummaryFailure_Abort(todo) == <<>>
AfterSummaryFailure(todo) == todo

\* lines 627-631: the completion returns a text, returns none, or raises, or
\* set_user_notes raises; the notes are overwritten and the for loop goes on
SummarizeDone ==
    /\ summarize_loop.pc = "await_summary"
    /\ \E text \in SummaryTexts, outcome \in {"ok", "service_error", "store_error"} :
        LET row == summarize_loop.cur[1]
            key == <<row.user_id, row.guild_id>>
        IN IF outcome = "ok"
           THEN IF text # <<>>
                THEN /\ db' = set_user_notes(db, row.user_id, Strip(text), row.guild_id)
                     /\ committed' = db'
                     /\ SummarizeScan(summarize_loop, summarize_loop.todo,
                                      Append(auto_log.summarize, Did("overwrite", 0, key)))
                ELSE /\ SummarizeScan(summarize_loop, summarize_loop.todo, auto_log.summarize)
                     /\ UNCHANGED <<db, committed>>
           ELSE /\ SummarizeScan(summarize_loop, AfterSummaryFailure(summarize_loop.todo),
                                 Append(auto_log.summarize, Did("failed", 0, key)))
                /\ UNCHANGED <<db, committed>>
    /\ UNCHANGED ticks
    /\ SummarizeFrame

\* ------------------------------------- the three tasks and the commands
LongProfile ==
    [EmptyMemories EXCEPT !.rows = {[user_id |-> 1, guild_id |-> 1,
                                     notes |-> <<"- ", "a", "\n", "- ", "b">>,
                                     relationship_status |-> <<Neutral>>]}]

InitTasks ==
    /\ Running({RunningStore(LongProfile)}, {0})
    /\ client \in BOOLEAN
    /\ server_settings = [default |-> AllChannels]

NextTasks ==
    \/ MessageTick
    \/ MessageHistory
    \/ MessageGenerate
    \/ MessageTyping
    \/ MessageSend
    \/ ReactionTick
    \/ ReactionHistory
    \/ ReactionEmoji
    \/ ReactionAdd
    \/ SummarizeTick
    \/ SummarizeDone
    \/ StealthCommand

SpecTasks == InitTasks /\ [][NextTasks]_vars

\* ------------------------------------------- the store methods, called
\* The memory commands (lines 392-417) and the store methods they call,
\* applied to the running agent's store in any order.  A call is recorded
\* in last_call with what the store held for the key before and after.
MaxCalls == 3        \* store calls in one run
StoreKeys == {<<1, 1>>, <<1, NoGuild>>}      \* one user in a guild and globally
StoreTexts == {<<"a">>, <<"b">>, <<Placeholder>>}

\* SELECT notes ... WHERE user_id = ? AND guild_id = ?; <<>> without a row
NotesOf(d, user_id, guild_id) ==
    LET found == {r \in d.memories.rows : r.user_id = user_id /\ r.guild_id = guild_id}
    IN IF found = {} THEN <<>> ELSE (CHOOSE r \in found : TRUE).notes

Called(op, user_id, guild_id, arg, after) ==
    /\ last_call' = [n |-> last_call.n + 1, op |-> op, user_id |-> user_id,
                     guild_id |-> guild_id, arg |-> arg,
                     had |-> HasKey(db.memories.rows, user_id, guild_id),
                     before |-> NotesOf(db, user_id, guild_id),
                     notes |-> IF op = "get" THEN get_user_profile(db, user_id, guild_id).notes
                               ELSE NotesOf(after, user_id, guild_id),
                     relationship |-> get_user_profile(after, user_id, guild_id).relationship]
    /\ db' = after
    /\ committed' = after

StoreFrame ==
    /\ boot = "running"
    /\ last_call.n < MaxCalls
    /\ UNCHANGED <<boot, in_txn, startups, migration, legacy_snapshot, loops_started>>
    /\ UNCHANGED <<configVars, coreVars, msgVars, taskVars>>

\* lines 394-401: !memory view
memory_view ==
    /\ StoreFrame
    /\ \E k \in StoreKeys :
        /\ Called("get", k[1], k[2], <<>>, get_user_profile_db(db, k[1], k[2]))
        /\ UNCHANGED appended

\* lines 405-409: !memory add, for a user and with a text out of the given sets
MemoryAdd(keys, texts) ==
    /\ StoreFrame
    /\ \E k \in keys, text \in texts :
        /\ Called("append", k[1], k[2], text, append_user_memory(db, k[1], text, k[2]))
        /\ appended' = [appended EXCEPT ![k] = Append(@, text)]
memory_add == MemoryAdd(StoreKeys, StoreTexts)

\* lines 413-417: !memory clear
\* (variant: the record is deleted instead of reset)
memory_clear_Delete ==
    /\ StoreFrame
    /\ \E k \in StoreKeys :
        /\ Called("set_notes", k[1], k[2], <<Placeholder>>,
                  [db EXCEPT !.memories.rows =
                      {r \in @ : ~(r.user_id = k[1] /\ r.guild_id = k[2])}])
        /\ appended' = [appended EXCEPT ![k] = <<>>]
memory_clear ==
    /\ StoreFrame
    /\ \E k \in StoreKeys :
        /\ Called("set_notes", k[1], k[2], <<Placeholder>>,
                  set_user_notes(db, k[1], <<Placeholder>>, k[2]))
        /\ appended' = [appended EXCEPT ![k] = <<>>]

\* lines 213-217: set_user_notes called with any text
SetUserNotes ==
    /\ StoreFrame
    /\ \E k \in StoreKeys, text \in StoreTexts :
        /\ Called("set_notes", k[1], k[2], text, set_user_notes(db, k[1], text, k[2]))
        /\ appended' = [appended EXCEPT ![k] = <<>>]

\* lines 228-232: set_user_relationship called with a status
SetUserRelationship ==
    /\ StoreFrame
    /\ \E k \in StoreKeys :
        /\ Called("set_relationship", k[1], k[2], <<"b">>,
                  set_user_relationship(db, k[1], <<"b">>, k[2]))
        /\ UNCHANGED appended

InitStore ==
    /\ Running({RunningStore(EmptyMemories), RunningStore(PriorProfile)}, {0})
    /\ client = TRUE
    /\ server_settings = [default |-> AllChannels]

NextStore ==
    \/ memory_view
    \/ memory_add
    \/ memory_clear
    \/ SetUserNotes
    \/ SetUserRelationship

SpecStore == InitStore /\ [][NextStore]_vars

\* ------------------------------ summarization next to the memory command
\* The summarization task over a store with two profiles over the threshold
\* and one under it, while !memory add is used.
ScanProfiles ==
    [EmptyMemories EXCEPT !.rows =
        {[user_id |-> 1, guild_id |-> 1, notes |-> <<"- ", "a", "\n", "- ", "b">>,
          relationship_status |-> <<Neutral>>],
         [user_id |-> 2, guild_id |-> 1, notes |-> <<"- ", "b", "\n", "- ", "a">>,
          relationship_status |-> <<Neutral>>],
         [user_id |-> 1, guild_id |-> NoGuild, notes |-> <<"- ", "a">>,
          relationship_status |-> <<Neutral>>]}]

InitSummarize ==
    /\ Running({RunningStore(ScanProfiles)}, {0})
    /\ client \in BOOLEAN
    /\ server_settings = [default |-> AllChannels]

NextSummarize ==
    \/ SummarizeTick
    \/ SummarizeDone
    \/ MemoryAdd({<<1, 1>>}, {<<"b">>})

SpecSummarize == InitSummarize /\ [][NextSummarize]_vars

\* ------------------------------------ one run from __init__ to steady state
\* One start of the process on a store without tables, with a legacy table
\* or with a current table; once __init__ has returned, one message, the
\* summarization task and !memory add.
LegacyProfile ==
    [exists |-> TRUE, schema |-> "legacy",
     rows |-> {[user_id |-> 1, notes |-> <<"- ", "a">>, relationship_status |-> <<"b">>]}]
BootStores ==
    [memories : {NoTable, LegacyProfile, PriorProfile},
     memories_old : {NoTable},
     reacted_messages : {NoTable}]

InitBoot ==
    /\ boot = "start"
    /\ db \in BootStores
    /\ committed = db
    /\ in_txn = FALSE
    /\ startups = 1
    /\ migration = "none"
    /\ legacy_snapshot = {}
    /\ loops_started = FALSE
    /\ client = TRUE
    /\ server_settings = [default |-> AllChannels]
    /\ FreshCore
    /\ NoMessages
    /\ NoCalls
    /\ IdleTasks

NextBoot ==
    \/ Connect
    \/ MigrateCheck
    \/ MigrateBegin
    \/ MigrateRename
    \/ MigrateCreate
    \/ MigrateCopy
    \/ MigrateDrop
    \/ MigrateCommit
    \/ FinishInit
    \/ OnMessage(ParseEvents, 1)
    \/ HistoryDone
    \/ ClassifyDone
    \/ ReplyDone(CoreTexts)
    \/ TypingDone
    \/ SendDone
    \/ SummarizeTick
    \/ SummarizeDone
    \/ MemoryAdd({<<1, 1>>}, {<<"b">>})

SpecBoot == InitBoot /\ [][NextBoot]_vars

\* ----------------------------------- the records of the store over one run
\* One start of the process as above, then the memory commands, the store
\* methods and the summarization task in any order.
NextRecords ==
    \/ Connect
    \/ MigrateCheck
    \/ MigrateBegin
    \/ MigrateRename
    \/ MigrateCreate
    \/ MigrateCopy
    \/ MigrateDrop
    \/ MigrateCommit
    \/ FinishInit
    \/ memory_view
    \/ MemoryAdd(StoreKeys, {<<"b">>})
    \/ memory_clear
    \/ SetUserNotes
    \/ SetUserRelationship
    \/ SummarizeTick
    \/ SummarizeDone

SpecRecords == InitBoot /\ [][NextRecords]_vars

\* ------------------------------------ two turns over a store with records
\* Two addressed messages, each by one of two users in a guild channel or in
\* a DM, over a store that holds records of both users and both scopes.
TurnEvents ==
    {ev \in Events : /\ ev.author \in {1, 2} /\ ~ev.bot /\ ev.channel \in {1, 3}
                     /\ ev.mentioned /\ ~ev.is_reply /\ ~ev.triggered}

InitTurn ==
    /\ Running({RunningStore(ScanProfiles)}, {0})
    /\ client = TRUE
    /\ server_settings = [default |-> AllChannels]

NextTurn ==
    \/ OnMessage(TurnEvents, 2)
    \/ HistoryDone
    \/ ClassifyDone
    \/ ReplyDone(CoreTexts)
    \/ TypingDone
    \/ SendDone

SpecTurn == InitTurn /\ [][NextTurn]_vars

\* ------------------------------------------ the reaction log on its own
\* The two statements the passive-reaction task runs on reacted_messages,
\* each applied to any message id in any state of the log.
LogIds == {11, 12, 13, 21}
IntegrityError == <<"IntegrityError">>

LogCalled(op, message_id, raised) ==
    last_call' = [NoCall EXCEPT !.n = last_call.n + 1, !.op = op, !.arg = <<message_id>>,
                                !.had = HasReacted(db, message_id),
                                !.notes = IF raised THEN IntegrityError ELSE <<>>]

\* line 646: SELECT 1 FROM reacted_messages WHERE message_id = ?
CheckReacted ==
    /\ StoreFrame
    /\ \E id \in LogIds : LogCalled("has", id, FALSE)
    /\ UNCHANGED <<db, committed, appended>>

\* lines 656-657: INSERT INTO reacted_messages ...; commit()
RecordReacted ==
    /\ StoreFrame
    /\ \E id \in LogIds :
         LET ins == InsertReactedSQL(db, id)
         IN /\ LogCalled("record", id, ins.raised)
            /\ db' = IF ins.raised THEN db ELSE ins.db
            /\ committed' = IF ins.raised THEN committed ELSE ins.db
    /\ UNCHANGED appended

InitLog ==
    /\ Running({RunningStore(EmptyMemories), LoggedStore}, {0})
    /\ client = TRUE
    /\ server_settings = [default |-> AllChannels]

NextLog ==
    \/ CheckReacted
    \/ RecordReacted

SpecLog == InitLog /\ [][NextLog]_vars

\* ---------------------------------------------------- claims: the guard
CyclesInFlight(c) == {m \in 1..MaxMsgs : msgs[m].pc \in InFlight /\ msgs[m].ev.channel = c}

\* C1: in every reachable state each channel has at most one reactive cycle
\* in flight, between the setting of its busy bit and the clearing of it.
C1_OneCyclePerChannel ==
    \A c \in Channels : Cardinality(CyclesInFlight(c)) <= 1

\* two cycles in different channels overlap
C1_Witness ==
    \E c1, c2 \in Channels :
        /\ c1 # c2
        /\ CyclesInFlight(c1) # {}
        /\ CyclesInFlight(c2) # {}

Eligible(ev) ==
    /\ ~FilteredAuthor(ev)
    /\ ~PolicyRejects(server_settings, ev)
    /\ Addressed(ev)

\* C2: an addressed, eligible message that arrives while a cycle of its
\* channel is in flight is dropped, starts no cycle, and a dropped message is
\* never processed afterwards.
C2_DroppedNotQueued ==
    [][\A m \in 1..MaxMsgs :
          /\ ( /\ msgs[m].pc = "undelivered"
               /\ msgs'[m].pc # "undelivered"
               /\ Eligible(msgs'[m].ev)
               /\ CyclesInFlight(msgs'[m].ev.channel) # {} )
             => /\ msgs'[m].pc = "dropped"
                /\ \A k \in 1..MaxMsgs \ {m} : msgs'[k] = msgs[k]
          /\ msgs[m].pc = "dropped"
             => /\ msgs'[m] = msgs[m]
                /\ effects'[m] = <<>>
      ]_vars

\* the first cycle has replied and released the guard; the second message,
\* dropped meanwhile, is still dropped
C2_Witness ==
    /\ msgs[1].pc = "done"
    /\ msgs[1].outcome = "replied"
    /\ msgs[2].pc = "dropped"
    /\ Addressed(msgs[2].ev)
    /\ msgs[2].ev.channel = msgs[1].ev.channel
    /\ is_thinking_in_channel = {}

\* C3: a channel is busy only while a cycle of it is in flight: every cycle
\* clears the busy bit it set when it ends, whatever the way it ends.
C3_GuardReleased ==
    \A c \in is_thinking_in_channel : CyclesInFlight(c) # {}

\* two cycles of one channel, both ended by an exception that leaves on_message
C3_Witness ==
    /\ msgs[1].pc = "done"
    /\ msgs[1].outcome = "history_failed"
    /\ msgs[2].pc = "done"
    /\ msgs[2].outcome = "profile_failed"
    /\ msgs[2].ev.channel = msgs[1].ev.channel
    /\ is_thinking_in_channel = {}

\* ------------------------------------------------ claims: the directives
\* What the specification says of a completion text, computed on the text
\* itself: the first occurrence of each marker, the trimmed text before the
\* first marker, and each payload up to the other marker or the end.
RECURSIVE TrimLeft(_)
TrimLeft(s) == IF s # <<>> /\ Head(s) \in Whitespace THEN TrimLeft(Tail(s)) ELSE s
RECURSIVE TrimRight(_)
TrimRight(s) ==
    IF s # <<>> /\ s[Len(s)] \in Whitespace THEN TrimRight(SubSeq(s, 1, Len(s) - 1)) ELSE s
Trimmed(s) == TrimRight(TrimLeft(s))

Occurrences(t, tok) == {i \in 1..Len(t) : t[i] = tok}
FirstOf(t, tok) == IF Occurrences(t, tok) = {} THEN 0 ELSE SetMin(Occurrences(t, tok))
\* the end of the text that starts after position i and runs to the first
\* position of stops behind i, or to the end of the text
UpTo(t, i, stops) ==
    IF {j \in stops : j > i} = {} THEN Len(t) ELSE SetMin({j \in stops : j > i}) - 1

SpecReply(t) ==
    Trimmed(SubSeq(t, 1, UpTo(t, 0, Occurrences(t, MEMORIZE) \cup Occurrences(t, RELATIONSHIP))))
\* the payload of marker tok: from its first occurrence to the first
\* occurrence of the other marker behind it, later occurrences of tok included
SpecPayload(t, tok, other) ==
    IF FirstOf(t, tok) = 0 THEN <<>>
    ELSE Trimmed(SubSeq(t, FirstOf(t, tok) + 1, UpTo(t, FirstOf(t, tok), {FirstOf(t, other)})))
\* the payload of marker tok cut at the next marker of either kind
CutPayload(t, tok, other) ==
    IF FirstOf(t, tok) = 0 THEN <<>>
    ELSE Trimmed(SubSeq(t, FirstOf(t, tok) + 1,
                        UpTo(t, FirstOf(t, tok), Occurrences(t, tok) \cup Occurrences(t, other))))

Effect(op, arg) == IF arg = <<>> THEN {} ELSE {[op |-> op, arg |-> arg]}
SpecEffects(t) ==
    Effect("append_memory", SpecPayload(t, MEMORIZE, RELATIONSHIP))
        \cup Effect("set_relationship", SpecPayload(t, RELATIONSHIP, MEMORIZE))
        \cup Effect("reply", SpecReply(t))

Made(m) == {effects[m][i] : i \in 1..Len(effects[m])}

\* the completion text arrived and no store, typing or send call failed
TurnEnded(m) ==
    msgs[m].pc = "done" /\ msgs[m].outcome \in {"replied", "no_reply", "parse_error"}

OnceEach(t) ==
    Cardinality(Occurrences(t, MEMORIZE)) = 1 /\ Cardinality(Occurrences(t, RELATIONSHIP)) = 1
AtMostOnceEach(t) ==
    Cardinality(Occurrences(t, MEMORIZE)) <= 1 /\ Cardinality(Occurrences(t, RELATIONSHIP)) <= 1
MemorizeFirst(t) == OnceEach(t) /\ FirstOf(t, MEMORIZE) < FirstOf(t, RELATIONSHIP)
RelationshipFirst(t) == OnceEach(t) /\ FirstOf(t, RELATIONSHIP) < FirstOf(t, MEMORIZE)

ProfileOf(d, user_id, guild_id) ==
    {r \in d.memories.rows : r.user_id = user_id /\ r.guild_id = guild_id}

\* C6: a turn whose text is reply, memorize marker, m, relationship marker, r
\* (all three non-empty) sends the trimmed reply, appends the trimmed m to
\* the author's memory and sets the author's relationship to the trimmed r.
C6_MemorizeThenRelationship ==
    \A m \in 1..MaxMsgs :
        ( /\ TurnEnded(m)
          /\ MemorizeFirst(msgs[m].text)
          /\ Cardinality(SpecEffects(msgs[m].text)) = 3 )
        => /\ Made(m) = SpecEffects(msgs[m].text)
           /\ \A r \in ProfileOf(db, msgs[m].ev.author, context_guild_id(msgs[m].ev)) :
                r.relationship_status = SpecPayload(msgs[m].text, RELATIONSHIP, MEMORIZE)

\* the same text with the two directives exchanged
SwapDirectives(t) ==
    LET a == FirstOf(t, RELATIONSHIP)
        b == FirstOf(t, MEMORIZE)
    IN SubSeq(t, 1, a - 1) \o SubSeq(t, b, Len(t)) \o SubSeq(t, a, b - 1)

\* C7: a turn whose text has the relationship directive first and the
\* memorize directive second sends and writes what the turn does on the text
\* with the two directives in the opposite order.
C7_OrderIndependent ==
    \A m \in 1..MaxMsgs :
        (TurnEnded(m) /\ RelationshipFirst(msgs[m].text))
        => LET swapped == TurnEffects(SwapDirectives(msgs[m].text))
           IN Made(m) = {swapped[i] : i \in 1..Len(swapped)}

\* C8: when the text before the first marker is empty, the step that takes
\* the completion text ends the turn with no message sent and boredom_level
\* as it was, and with every non-empty payload written, whichever markers
\* the text holds.
C8_EmptyReplyStillApplies ==
    [][\A m \in 1..MaxMsgs :
          ( /\ msgs[m].pc = "await_reply"
            /\ msgs'[m].pc \in {"typing", "done"}
            /\ msgs'[m].outcome \in {"none", "no_reply", "parse_error"}
            /\ AtMostOnceEach(msgs'[m].text)
            /\ SpecReply(msgs'[m].text) = <<>> )
          => /\ msgs'[m].pc = "done"
             /\ boredom_level' = boredom_level
             /\ {effects'[m][i] : i \in 1..Len(effects'[m])} = SpecEffects(msgs'[m].text)
      ]_vars

HasDuplicate(t) ==
    Cardinality(Occurrences(t, MEMORIZE)) > 1 \/ Cardinality(Occurrences(t, RELATIONSHIP)) > 1

TextReceived(m) ==
    \/ msgs[m].pc \in {"typing", "await_send"}
    \/ /\ msgs[m].pc = "done"
       /\ msgs[m].outcome \in {"replied", "no_reply", "parse_error", "append_failed",
                               "relationship_failed", "typing_failed", "send_failed"}

NoWrites(m) ==
    /\ \A i \in 1..Len(effects[m]) : effects[m][i].op = "reply"
    /\ \E s \in {RunningStore(EmptyMemories), RunningStore(PriorProfile)} :
        db = get_user_profile_db(s, msgs[m].ev.author, context_guild_id(msgs[m].ev))

\* C10: a text without a marker gives the whole trimmed text as the reply
\* and no directive: the turn writes neither memory nor relationship, goes on
\* to send when the trimmed text is not empty, and what it sends is the
\* trimmed text.
C10_NoMarkerReplyOnly ==
    \A m \in 1..MaxMsgs :
        ( /\ TextReceived(m)
          /\ Occurrences(msgs[m].text, MEMORIZE) = {}
          /\ Occurrences(msgs[m].text, RELATIONSHIP) = {} )
        => /\ NoWrites(m)
           /\ msgs[m].outcome \notin {"parse_error", "append_failed", "relationship_failed"}
           /\ msgs[m].outcome = "no_reply" <=> Trimmed(msgs[m].text) = <<>>
           /\ msgs[m].outcome = "replied"
                => effects[m] = <<[op |-> "reply", arg |-> Trimmed(msgs[m].text)]>>
           /\ msgs[m].outcome # "replied" => effects[m] = <<>>

C10_Witness ==
    \E m \in 1..MaxMsgs :
        /\ msgs[m].pc = "done"
        /\ msgs[m].outcome = "replied"
        /\ msgs[m].text = <<" ", "a", " ", "b", " ">>
        /\ effects[m] = <<[op |-> "reply", arg |-> <<"a", " ", "b">>]>>
        /\ boredom_level = 0

\* ------------------------------------------------------ claims: migration
LegacyIntact(d) ==
    /\ d.memories.exists
    /\ d.memories.schema = "legacy"
    /\ d.memories.rows = legacy_snapshot
    /\ ~d.memories_old.exists

\* C4: after a failure while copying the rows and the rollback, the legacy
\* memories table is intact under its own name with all its rows and no
\* new-schema table exists, in the file and for the connection.
C4_CopyFailureLeavesLegacyIntact ==
    migration = "failed_copy" => LegacyIntact(committed) /\ LegacyIntact(db)

MigratedOnce(rows, r) ==
    /\ Cardinality({x \in rows : x.user_id = r.user_id /\ x.guild_id = 0}) = 1
    /\ \E x \in rows :
        /\ x.user_id = r.user_id
        /\ x.guild_id = 0
        /\ x.notes = r.notes
        /\ x.relationship_status = r.relationship_status

\* C5: after a migration that completed without failure, every legacy row is
\* in the new memories table exactly once, under guild_id 0 with its notes
\* and relationship unchanged, and the legacy table is gone.
C5_MigrationCopiesEveryRow ==
    migration = "done" =>
        /\ committed.memories.exists
        /\ committed.memories.schema = "guild"
        /\ \A r \in legacy_snapshot : MigratedOnce(committed.memories.rows, r)
        /\ ~committed.memories_old.exists
        /\ db = committed

C5_Witness ==
    /\ migration = "done"
    /\ boot = "running"
    /\ Cardinality(legacy_snapshot) = 2
    /\ \E r \in legacy_snapshot : r.notes # <<Placeholder>> /\ r.relationship_status # <<Neutral>>

\* ---------------------------------------------------- claims: the store
Bullet(summary) == <<"- ">> \o summary
LinesOf(notes) == Split(notes, "\n")
AppendedBullets(k) == [i \in 1..Len(appended[k]) |-> Bullet(appended[k][i])]
RecordsOf(d, k) == {r \in d.memories.rows : r.user_id = k[1] /\ r.guild_id = k[2]}

\* C11: append-memory on notes that are not the placeholder keeps every prior
\* line verbatim and in order and adds exactly one trailing bullet; so after
\* any sequence of appends on a key every appended summary is still in the
\* notes, in the order appended, whatever the texts are.
C11_AppendKeepsPriorLines ==
    /\ (last_call.op = "append" /\ last_call.had /\ last_call.before # <<Placeholder>>)
          => last_call.notes = last_call.before \o <<"\n">> \o Bullet(last_call.arg)
    /\ \A k \in StoreKeys :
          LET lines == LinesOf(NotesOf(db, k[1], k[2]))
              n == Len(appended[k])
          IN n > 0 => /\ Len(lines) >= n
                      /\ SubSeq(lines, Len(lines) - n + 1, Len(lines)) = AppendedBullets(k)

\* C12: append-memory on notes equal to the placeholder, or on a key without
\* a record, leaves exactly one bullet holding the summary; the placeholder
\* the notes consisted of is gone.
C12_PlaceholderReplacedByOneBullet ==
    (last_call.op = "append" /\ (~last_call.had \/ last_call.before = <<Placeholder>>))
        => /\ last_call.notes = Bullet(last_call.arg)
           /\ NotesOf(db, last_call.user_id, last_call.guild_id) = Bullet(last_call.arg)
           /\ Len(LinesOf(last_call.notes)) = 1

C12_Witness ==
    /\ last_call.op = "append"
    /\ ~last_call.had
    /\ last_call.notes = <<"- ", "a">>

\* C13: get-or-create never leaves two records for a key, returns the
\* placeholder and "neutral" for a key without a record and the stored notes
\* otherwise, and a second get-or-create right after a first on the same key
\* returns the same notes and relationship and changes no record.
C13_GetOrCreateIdempotent ==
    /\ [](/\ \A k \in Users \X GuildIds : Cardinality(RecordsOf(db, k)) <= 1
          /\ last_call.op = "get" =>
                /\ Cardinality(RecordsOf(db, <<last_call.user_id, last_call.guild_id>>)) = 1
                /\ ~last_call.had => /\ last_call.notes = <<Placeholder>>
                                     /\ last_call.relationship = <<Neutral>>
                /\ last_call.had => last_call.notes = last_call.before)
    /\ [][(/\ last_call.op = "get"
           /\ last_call'.op = "get"
           /\ last_call'.n = last_call.n + 1
           /\ last_call'.user_id = last_call.user_id
           /\ last_call'.guild_id = last_call.guild_id)
          => /\ last_call'.notes = last_call.notes
             /\ last_call'.relationship = last_call.relationship
             /\ db' = db]_vars

C13_Witness ==
    /\ last_call.op = "get"
    /\ last_call.n = 3
    /\ last_call.had
    /\ last_call.notes = <<"- ", "b">>

\* C14 as stated: after set-notes the notes stored for the key are the text,
\* from every store state, so a following get-or-create returns the text.
C14_SetNotesAlwaysStores ==
    last_call.op = "set_notes"
        => get_user_profile(db, last_call.user_id, last_call.guild_id).notes = last_call.arg

\* C14 amended: set-notes overwrites the notes of the record of the key and
\* of no other record; without a record for the key it stores nothing and a
\* following get-or-create returns the placeholder.
C14_SetNotesOverwritesExisting ==
    /\ [](last_call.op = "set_notes" =>
            LET got == get_user_profile(db, last_call.user_id, last_call.guild_id).notes
            IN IF last_call.had
               THEN /\ NotesOf(db, last_call.user_id, last_call.guild_id) = last_call.arg
                    /\ got = last_call.arg
               ELSE /\ RecordsOf(db, <<last_call.user_id, last_call.guild_id>>) = {}
                    /\ got = <<Placeholder>>)
    /\ [][(last_call'.n = last_call.n + 1 /\ last_call'.op = "set_notes")
          => \A k \in StoreKeys \ {<<last_call'.user_id, last_call'.guild_id>>} :
                RecordsOf(db', k) = RecordsOf(db, k)]_vars

C14_Witness ==
    /\ last_call.op = "set_notes"
    /\ last_call.had
    /\ last_call.before = <<"- ", "a">>
    /\ last_call.arg = <<"b">>
    /\ \E k \in StoreKeys \ {<<last_call.user_id, last_call.guild_id>>} : RecordsOf(db, k) # {}

\* ------------------------------------------------ claims: the boredom loop
MessageTicked == ticks'.message = ticks.message + 1
ReplySent == \E m \in 1..MaxMsgs : msgs[m].outcome # "replied" /\ msgs'[m].outcome = "replied"
OutreachSent ==
    /\ auto_log'.message # auto_log.message
    /\ auto_log'.message # <<>>
    /\ auto_log'.message[Len(auto_log'.message)].kind = "send"

\* C17 as stated: with the stealth flag clear and the service available on
\* every tick since the last reset, the boredom loop attempts outreach on
\* tick T + 1 counted from the reset and on no earlier tick.
C17_OutreachOnTickAfterThreshold ==
    [][(MessageTicked /\ ticks'.skipped = 0)
          => (message_loop'.passed <=> ticks'.since_reset >= BoredomThreshold + 1)]_vars

\* C17 amended: under the same conditions the boredom loop attempts outreach
\* on tick T counted from the reset, the tick whose increment brings the
\* counter to T, on no earlier tick, and on every later tick until a reset.
C17_OutreachOnThresholdTick ==
    [][(MessageTicked /\ ticks'.skipped = 0)
          => /\ boredom_level' = ticks'.since_reset
             /\ message_loop'.passed <=> ticks'.since_reset >= BoredomThreshold]_vars

C17_Witness ==
    /\ message_loop.passed
    /\ message_loop.pc = "await_history"
    /\ ticks.skipped = 0
    /\ ticks.since_reset = BoredomThreshold
    /\ ticks.message > ticks.since_reset

\* C18: a reply sent by the reactive turn and a message sent by the boredom
\* loop each leave the boredom counter at zero in the very step of the send,
\* so no boredom tick runs between the send and the reset.
C18_ReplyResetsBoredom ==
    [][(ReplySent \/ OutreachSent) => boredom_level' = 0]_vars

C18_Witness ==
    /\ msgs[1].outcome = "replied"
    /\ ticks.message >= 1
    /\ ticks.since_reset = 0
    /\ boredom_level = 0
    /\ message_loop.pc = "idle"

\* C19: a boredom tick that finds the stealth flag set or the completion
\* client missing still adds one to the boredom counter, and selects no
\* channel, requests no completion and sends nothing.
C19_SkippedTickStillIncrements ==
    [][(MessageTicked /\ (stealth_mode \/ ~client))
          => /\ boredom_level' = boredom_level + 1
             /\ auto_log'.message = <<>>
             /\ message_loop'.pc = "idle"]_vars

\* ---------------------------------------------- claims: the reaction loop
\* the entries a step adds to the log of a task's iteration
Added(task) ==
    LET old == auto_log[task]
        new == auto_log'[task]
        from == IF Len(new) >= Len(old) /\ SubSeq(new, 1, Len(old)) = old THEN Len(old) ELSE 0
    IN {new[i] : i \in (from + 1)..Len(new)}
Entries(task, kinds) ==
    {i \in 1..Len(auto_log[task]) : auto_log[task][i].kind \in kinds}

\* C15: no step of the reaction loop requests an emoji for, or reacts to, a
\* message whose id is in the reaction log, and no id ever leaves the log.
C15_LoggedMessageNeverReactedAgain ==
    [][/\ \A e \in Added("reaction") :
             e.kind \in {"request", "react"} => ~HasReacted(db, e.what)
       /\ db.reacted_messages.rows \subseteq db'.reacted_messages.rows]_vars

C15_Witness ==
    /\ ticks.reaction >= 2
    /\ reaction_loop.channel = 1
    /\ HasReacted(db, 13)
    /\ \E i \in Entries("reaction", {"request"}) : auto_log.reaction[i].what = 12

\* C16: one iteration of the reaction loop applies at most one reaction and
\* adds at most one id to the reaction log, and whatever it requests, reacts
\* to or logs is in the channel it selected.
C16_OneReactionPerTick ==
    /\ [](/\ Cardinality(Entries("reaction", {"react"})) <= 1
          /\ Cardinality(Entries("reaction", {"logged"})) <= 1
          /\ \A i \in 1..Len(auto_log.reaction) :
                /\ auto_log.reaction[i].channel = reaction_loop.channel
                /\ auto_log.reaction[i].kind # "select" =>
                      \E j \in 1..Len(ChannelHistory(reaction_loop.channel)) :
                         ChannelHistory(reaction_loop.channel)[j] = auto_log.reaction[i].what)
    /\ [][db'.reacted_messages.rows # db.reacted_messages.rows
             => /\ Cardinality(db'.reacted_messages.rows \ db.reacted_messages.rows) = 1
                /\ \E e \in Added("reaction") :
                      /\ e.kind = "logged"
                      /\ [message_id |-> e.what] \in db'.reacted_messages.rows
                      /\ ~HasReacted(db, e.what)]_vars

C16_Witness ==
    /\ reaction_loop.pc = "idle"
    /\ reaction_loop.channel = 1
    /\ Cardinality(Entries("reaction", {"react"})) = 1
    /\ HasReacted(db, 13)
    /\ ~HasReacted(db, 12)

\* ------------------------------------------------- claims: the stealth flag
TaskOf(task) ==
    IF task = "message" THEN message_loop
    ELSE IF task = "reaction" THEN reaction_loop ELSE summarize_loop

\* C20: an iteration of any of the three periodic tasks that started with
\* the stealth flag set requests no completion, sends no message, applies no
\* reaction and overwrites no notes.
C20_StealthSuppressesPeriodicTasks ==
    \A task \in {"message", "reaction", "summarize"} :
        TaskOf(task).stealth =>
            Entries(task, {"request", "send", "react", "logged", "overwrite"}) = {}

\* ------------------------------------------- claims: errors in the tasks
\* C21: whatever raises during an iteration of a periodic task, the task is
\* not ended by it: none of the three tasks is ever left stopped.
C21_NoTaskStops ==
    /\ message_loop.pc # "stopped"
    /\ reaction_loop.pc # "stopped"
    /\ summarize_loop.pc # "stopped"

\* -------------------------------------------- claims: the reactive gates
Gated(m) ==
    \/ msgs[m].pc \in {"await_reply", "typing", "await_send"}
    \/ effects[m] # <<>>
    \/ msgs[m].outcome \notin {"none", "declined", "history_failed"}

\* C22: a cycle requests the reply completion, writes to the store or sends
\* only after the classifier said yes in that cycle; a classifier error and
\* a missing client count as no: the cycle ends declined, having written
\* nothing and sent nothing.
C22_ClassifierIsTheGate ==
    /\ [](\A m \in 1..MaxMsgs :
            /\ Gated(m) => msgs[m].classifier = "yes"
            /\ msgs[m].classifier \in {"no", "error", "no_client"} =>
                  /\ msgs[m].pc = "done"
                  /\ msgs[m].outcome = "declined"
                  /\ effects[m] = <<>>)
    /\ [][\A m \in 1..MaxMsgs :
            (msgs[m].classifier = "none" /\ msgs'[m].classifier \in {"no", "error", "no_client"})
               => db' = db /\ effects' = effects /\ boredom_level' = boredom_level]_vars

C22_Witness ==
    /\ msgs[1].classifier = "error"
    /\ msgs[1].outcome = "declined"
    /\ msgs[2].classifier = "yes"
    /\ msgs[2].outcome = "replied"

\* the message a step delivers to on_message
Delivered(m) == msgs[m].pc = "undelivered" /\ msgs'[m].pc # "undelivered"
NothingElseChanges(m) ==
    /\ \A k \in 1..MaxMsgs \ {m} : msgs'[k] = msgs[k]
    /\ UNCHANGED <<startupVars, configVars, boredom_level, stealth_mode, effects>>
    /\ UNCHANGED <<storeVars, taskVars>>
NoCycleStarted(m) ==
    /\ msgs'[m].pc \in {"ignored", "dropped"}
    /\ is_thinking_in_channel' = is_thinking_in_channel
    /\ NothingElseChanges(m)

AuthorIsFiltered(ev) ==
    \/ ev.author = SelfId
    \/ ev.bot
    \/ ev.author \in IgnoredUsers
IsAddressed(ev) == ev.mentioned \/ ev.is_reply \/ ev.triggered
PolicyEntry(g) ==
    IF GuildKey(g) \in DOMAIN server_settings THEN server_settings[GuildKey(g)]
    ELSE IF "default" \in DOMAIN server_settings THEN server_settings["default"]
    ELSE [is_active_in_all_channels |-> FALSE, active_channels |-> {}]
PolicyAllows(ev) ==
    ChannelGuild(ev.channel) # NoGuild =>
        \/ PolicyEntry(ChannelGuild(ev.channel)).is_active_in_all_channels
        \/ ev.channel \in PolicyEntry(ChannelGuild(ev.channel)).active_channels

\* C23: a message of the agent itself, of an automated account or of an
\* ignored user starts no cycle however it addresses the agent: the busy bit
\* is not set, nothing is requested and no state changes, then or later.
C23_FilteredAuthorsStartNothing ==
    /\ [][\A m \in 1..MaxMsgs :
            (Delivered(m) /\ AuthorIsFiltered(msgs'[m].ev))
               => /\ msgs'[m].pc = "ignored"
                  /\ NoCycleStarted(m)]_vars
    /\ [](\A m \in 1..MaxMsgs :
            (msgs[m].pc # "undelivered" /\ AuthorIsFiltered(msgs[m].ev))
               => /\ msgs[m].pc = "ignored"
                  /\ msgs[m].classifier = "none"
                  /\ effects[m] = <<>>)

C23_Witness ==
    /\ msgs[1].pc = "ignored"
    /\ msgs[1].ev.author \in IgnoredUsers
    /\ msgs[1].ev.mentioned
    /\ msgs[1].ev.channel = 3
    /\ msgs[2].pc = "await_history"
    /\ msgs[2].ev.channel = 3

Recorded(id) ==
    /\ last_call'.n = last_call.n + 1
    /\ last_call'.op = "record"
    /\ last_call'.arg = <<id>>
LogRows(d) == {r.message_id : r \in d.reacted_messages.rows}

C26_NothingSentWhileStealth ==
    [][stealth_mode =>
          \A task \in {"message", "reaction"} :
             \A e \in Added(task) : e.kind \notin {"send", "react"}]_vars

\* ------------------------------------------- claims: memory summarization
\* C27: when the summarization task overwrites the notes of a record, the
\* notes stored for the record at that moment are the notes the summary was
\* requested for.
C27_OverwriteSeesCurrentNotes ==
    [][\A e \in Added("summarize") :
          e.kind = "overwrite"
             => NotesOf(db, e.what[1], e.what[2]) = summarize_loop.cur[1].notes]_vars

\* the step that ends the wait for the summary of a record, and the records
\* of a pass that are over the threshold
SummaryReturned ==
    /\ summarize_loop.pc = "await_summary"
    /\ summarize_loop' # summarize_loop
OverThreshold(row) == Len(row.notes) > SummarizeThreshold
StillToSummarize == SelectSeq(summarize_loop.todo, OverThreshold)
Overwrote == \E e \in Added("summarize") : e.kind = "overwrite"
OtherRecordsKept(row) ==
    \A r \in db.memories.rows :
        (r.user_id # row.user_id \/ r.guild_id # row.guild_id) => r \in db'.memories.rows

\* C29: in a summarization pass a record whose summary fails (service or
\* store error) keeps its notes, the scan goes on with the next record the
\* pass read with notes over the threshold, and only a record the pass read
\* with notes over the threshold is requested or overwritten.
C29_FailedRecordDoesNotAbortScan ==
    /\ [][SummaryReturned =>
            /\ ~Overwrote => db' = db
            /\ IF StillToSummarize # <<>>
               THEN /\ summarize_loop'.pc = "await_summary"
                    /\ summarize_loop'.cur = <<Head(StillToSummarize)>>
               ELSE summarize_loop'.pc = "idle"
            /\ Overwrote => /\ OverThreshold(summarize_loop.cur[1])
                            /\ OtherRecordsKept(summarize_loop.cur[1])]_vars
    /\ [](summarize_loop.pc = "await_summary" => OverThreshold(summarize_loop.cur[1]))

C29_Witness ==
    /\ summarize_loop.pc = "idle"
    /\ Len(auto_log.summarize) = 4
    /\ auto_log.summarize[1].kind = "request"
    /\ auto_log.summarize[2].kind = "failed"
    /\ auto_log.summarize[3].kind = "request"
    /\ auto_log.summarize[4].kind = "overwrite"
    /\ auto_log.summarize[2].what # auto_log.summarize[4].what
    /\ \E r \in db.memories.rows :
          /\ <<r.user_id, r.guild_id>> = auto_log.summarize[2].what
          /\ r \in ScanProfiles.rows
    /\ [user_id |-> 1, guild_id |-> NoGuild, notes |-> <<"- ", "a">>,
        relationship_status |-> <<Neutral>>] \in db.memories.rows

\* ------------------------------------------------ claims: the first startup
\* C28: a startup on a store that has no memories table passes the schema
\* check without error and without a migration, and goes on to create the
\* tables; it never ends failed.
C28_FirstStartupCompletes ==
    [][(boot = "check" /\ ~db.memories.exists /\ boot' # boot)
          => /\ boot' = "create_tables"
             /\ migration' \notin {"started", "failed_check"}
             /\ db' = db]_vars

\* ------------------------------------- claims: the counter after a failure
\* a step of a boredom iteration that is past the threshold test
OutreachStep ==
    /\ message_loop.pc \in {"await_generate", "typing", "await_send"}
    /\ message_loop' # message_loop

\* C30: the boredom counter goes down only in a step that sends a reply or
\* an outreach message; an iteration at the threshold that finds no eligible
\* channel, gets no text or fails in its completion request, typing or send
\* sends nothing and leaves the counter as incremented; and a tick with the
\* counter at the threshold or above, stealth clear and the service
\* available, attempts outreach whenever a channel is eligible.
C30_OnlySendResetsBoredom ==
    [][/\ boredom_level' < boredom_level => (ReplySent \/ OutreachSent)
       /\ (OutreachStep /\ ~OutreachSent)
             => /\ boredom_level' = boredom_level
                /\ \A e \in Added("message") : e.kind # "send"
       /\ (MessageTicked /\ ~stealth_mode /\ client /\ boredom_level + 1 >= BoredomThreshold)
             => /\ boredom_level' = boredom_level + 1
                /\ IF GetEligibleChannels(server_settings, "send_messages") = {}
                   THEN /\ message_loop'.pc = "idle"
                        /\ auto_log'.message = <<>>
                   ELSE /\ message_loop'.pc = "await_history"
                        /\ message_loop'.channel \in
                              GetEligibleChannels(server_settings, "send_messages")]_vars

C30_Witness ==
    /\ boredom_level = BoredomThreshold + 1
    /\ message_loop.pc = "await_history"
    /\ ticks.message = BoredomThreshold + 1
    /\ ticks.skipped = 0

\* ------------------------------------- claims: startup before steady state
\* nothing of the steady state has happened: no task started or ticked, no
\* message taken, no store method called
NothingRunsYet ==
    /\ ~loops_started
    /\ \A m \in 1..MaxMsgs : msgs[m].pc = "undelivered" /\ effects[m] = <<>>
    /\ ticks = NoTicks
    /\ message_loop.pc = "idle" /\ reaction_loop.pc = "idle" /\ summarize_loop.pc = "idle"
    /\ last_call.n = 0

\* C31: until __init__ has returned nothing of the steady state runs, and
\* the tasks are started with the migration transaction closed; after a
\* failed migration __init__ has raised with the transaction rolled back,
\* and from then on no task is started, no message is taken and the store
\* is not touched.
C31_MigrationBeforeSteadyState ==
    /\ [](boot \notin {"running", "failed"} => NothingRunsYet)
    /\ [](boot = "failed" => /\ NothingRunsYet
                             /\ ~in_txn
                             /\ db = committed)
    /\ [](loops_started => /\ ~in_txn
                           /\ boot = "running"
                           /\ migration \in {"up_to_date", "done"})
    /\ [][boot = "failed" => /\ boot' = "failed"
                             /\ db' = db
                             /\ committed' = committed]_vars

C31_Witness ==
    /\ boot = "running"
    /\ migration = "done"
    /\ loops_started
    /\ ticks.summarize >= 1
    /\ msgs[1].outcome = "replied"
    /\ last_call.n >= 1

\* ------------------------------------------ claims: the records of the store
KeysOf(d) == {<<r.user_id, r.guild_id>> : r \in d.memories.rows}
OneRecordPerKey(d) ==
    d.memories.schema = "guild" =>
        \A r1, r2 \in d.memories.rows :
            (r1.user_id = r2.user_id /\ r1.guild_id = r2.guild_id) => r1 = r2
Cleared(k) ==
    /\ last_call'.n = last_call.n + 1
    /\ last_call'.op = "set_notes"
    /\ last_call'.arg = <<Placeholder>>
    /\ last_call'.user_id = k[1]
    /\ last_call'.guild_id = k[2]

\* C32: the memories table never holds two records of one (user_id,
\* guild_id) key; once __init__ has returned no step takes a key out of the
\* table; and clearing a record leaves it in the table with the placeholder
\* notes and the relationship it had, every other record as it was.
C32_RecordsUniqueAndKept ==
    /\ [](OneRecordPerKey(db) /\ OneRecordPerKey(committed))
    /\ [][(boot = "running" /\ boot' = "running")
             => /\ KeysOf(db) \subseteq KeysOf(db')
                /\ KeysOf(committed) \subseteq KeysOf(committed')]_vars
    /\ [][\A r \in db.memories.rows :
             Cleared(<<r.user_id, r.guild_id>>)
                => db'.memories.rows =
                      (db.memories.rows \ {r}) \cup {[r EXCEPT !.notes = <<Placeholder>>]}]_vars

C32_Witness ==
    /\ boot = "running"
    /\ migration = "done"
    /\ last_call.op = "set_notes"
    /\ last_call.arg = <<Placeholder>>
    /\ last_call.had
    /\ last_call.before # <<Placeholder>>
    /\ last_call.user_id = 1
    /\ last_call.guild_id = NoGuild
    /\ [user_id |-> 1, guild_id |-> NoGuild, notes |-> <<Placeholder>>,
        relationship_status |-> <<"b">>] \in db.memories.rows
    /\ Cardinality(KeysOf(db)) >= 2

\* ------------------------------------------- claims: the scope of a turn
\* the key of the turn of a message, and the records under other keys
TurnKey(ev) == <<ev.author, ChannelGuild(ev.channel)>>
RecordsBut(d, k) == {r \in d.memories.rows : <<r.user_id, r.guild_id>> # k}
RecordUnder(d, k) == {r \in d.memories.rows : <<r.user_id, r.guild_id>> = k}
IsPrefix(a, b) == Len(a) <= Len(b) /\ SubSeq(b, 1, Len(a)) = a

\* C33: a step of the turn of a message by user u in guild g (0 in a DM)
\* changes no record but the one under (u, g), and what it stores there
\* comes from the record under (u, g): its notes continue the notes that
\* were there, unless those were the placeholder.
C33_TurnTouchesOnlyItsKey ==
    [][db' # db =>
          \E m \in 1..MaxMsgs :
             /\ msgs'[m] # msgs[m]
             /\ RecordsBut(db', TurnKey(msgs[m].ev)) = RecordsBut(db, TurnKey(msgs[m].ev))
             /\ \A r \in RecordUnder(db, TurnKey(msgs[m].ev)),
                   n \in RecordUnder(db', TurnKey(msgs[m].ev)) :
                      r.notes = <<Placeholder>> \/ IsPrefix(r.notes, n.notes)]_vars

C33_Witness ==
    /\ msgs[1].ev.author = 1
    /\ msgs[1].ev.channel = 3
    /\ msgs[1].outcome = "replied"
    /\ msgs[2].ev.author = 2
    /\ msgs[2].ev.channel = 3
    /\ msgs[2].pc = "done"
    /\ RecordUnder(db, <<1, NoGuild>>) # RecordUnder(RunningStore(ScanProfiles), <<1, NoGuild>>)
    /\ RecordUnder(db, <<2, NoGuild>>) # {}
    /\ RecordsBut(db, <<1, NoGuild>>) \ RecordUnder(db, <<2, NoGuild>>)
          = RecordsBut(RunningStore(ScanProfiles), <<1, NoGuild>>)

====
